---- MODULE Spec2Model ----
(***************************************************************************)
(* Model of the jobmaster storage layer: the pgvector-backed record store  *)
(* (storage/pg_vector_store.py), the upsert helpers of                     *)
(* storage/vector_sync.py, the application CRUD of storage/json_db.py and  *)
(* the connection scope of storage/pg_connection.py.                       *)
(*                                                                         *)
(* Specifications:                                                         *)
(*   SpecEmbed  _generate_embeddings_with_retry, one provider call a step  *)
(*   Spec       one client calling the PgVectorStore / vector_sync API,    *)
(*              one whole call per step, with injected failures            *)
(*   SpecConc   two clients upserting the same logical record, one         *)
(*              connection scope (transaction) per step                    *)
(*   SpecJobs   one client calling the JobSearchDB application API         *)
(***************************************************************************)
EXTENDS Integers, Sequences, FiniteSets, TLC

VARIABLES
    \* ---- relational engine (shared by all stores of the process) ----
    table,              \* rows of vector_documents (a larger id is a later created_at)
    table_exists,       \* the vector_documents table has been created
    extension_checked,  \* pg_connection._extension_checked
    \* ---- what the caller of the last API call observed ----
    last,
    \* ---- _generate_embeddings_with_retry ----
    texts,              \* the input texts (text k is the number k)
    bi,                 \* loop variable i: start index of the current batch
    attempt,            \* loop variable attempt
    all_embeddings,     \* embeddings collected so far (embedding of text k is k)
    elog,               \* provider calls and sleeps, in order
    epc,                \* "batch" | "try" | "returned" | "raised"
    lastErr,            \* the exception the provider raised last
    \* ---- concurrent upserts ----
    cpc,                \* per client: position inside sync_application_to_vector_store
    cst,                \* per client: what its delete / insert did
    \* ---- add_texts: the INSERT scope ----
    pending,            \* rows inserted by the open transaction, not yet committed
    \* ---- pg_connection: the pool and the threads using it ----
    connection_pool,    \* pg_connection._connection_pool: a pool number, or NoPool
    pools,              \* the pools created so far: [out, closed] per pool number
    tpc,                \* per thread: position inside get_connection
    tst,                \* per thread: the locals of its get_connection scope
    \* ---- dimensionality reduction ----
    pca_file,           \* the model pickled at pca_model_path, or None
    pca_model           \* per store instance: self.pca_model, or None

vars == << table, table_exists, extension_checked, last,
           texts, bi, attempt, all_embeddings, elog, epc, lastErr, cpc, cst,
           pending, connection_pool, pools, tpc, tst, pca_file, pca_model >>

storeVars == << table, table_exists, extension_checked, last >>
embedVars == << texts, bi, attempt, all_embeddings, elog, epc, lastErr >>
concVars  == << cpc, cst >>
poolVars  == << connection_pool, pools, tpc, tst >>
reduceVars == << pca_file, pca_model >>
auxVars   == << pending, poolVars, reduceVars >>

None == "none"

(***************************************************************************)
(* Bounds of the model.                                                    *)
(***************************************************************************)
MaxTexts == 7      \* texts handed to one ingestion call (two batches)
MaxDocs  == 2      \* rows the table holds at a time

(***************************************************************************)
(* Program constants.                                                      *)
(***************************************************************************)
BatchSize  == 5    \* _generate_embeddings_with_retry(batch_size=5)
MaxRetries == 7    \* max_retries = 7
BaseDelay  == 5    \* base_delay = 5
BatchDelay == 1    \* time.sleep(1.0) between batches

LEGACY_DEFAULT_USER_ID == "default_user"

(***************************************************************************)
(* Embedding ingestion: _generate_embeddings_with_retry.                   *)
(***************************************************************************)

\* What the handler reads of a provider exception: str(e).lower() is searched
\* for "429", "resource exhausted" and "quota".
ProviderErrors ==
    { [has429 |-> TRUE,  hasResourceExhausted |-> FALSE, hasQuota |-> FALSE],
      [has429 |-> FALSE, hasResourceExhausted |-> TRUE,  hasQuota |-> FALSE],
      [has429 |-> FALSE, hasResourceExhausted |-> FALSE, hasQuota |-> TRUE],
      [has429 |-> FALSE, hasResourceExhausted |-> FALSE, hasQuota |-> FALSE] }

NoErr == [has429 |-> FALSE, hasResourceExhausted |-> FALSE, hasQuota |-> FALSE]

\* The provider's side of the contract: a rate-limit rejection is an error whose
\* message carries "429", "Resource exhausted" or a quota notice; anything else
\* (authentication, malformed input) is another error.
Signal(e) ==
    IF e.has429 \/ e.hasResourceExhausted \/ e.hasQuota THEN "rate_limit" ELSE "error"

\* "429" in error_str or "resource exhausted" in error_str or "quota" in error_str
\* (IsRateLimit_Always: a test that takes every exception for a rate limit)
IsRateLimit_Always(e) == TRUE
IsRateLimit(e) == e.has429 \/ e.hasResourceExhausted \/ e.hasQuota

\* if attempt < max_retries - 1: sleep and retry, else raise
\* (CanRetry_OffByOne: the bound without the "- 1")
CanRetry_OffByOne(a) == a < MaxRetries
CanRetry(a) == a < MaxRetries - 1

RECURSIVE Pow2(_)
Pow2(k) == IF k = 0 THEN 1 ELSE 2 * Pow2(k - 1)

\* delay = base_delay * (2 ** attempt) + random.uniform(0, 1); the whole
\* seconds are logged, the jitter is a fraction of a second on top.
BackoffDelay(a) == BaseDelay * Pow2(a)

Min(a, b) == IF a < b THEN a ELSE b

\* batch = texts[i:i + batch_size]
\* (Batch_Rest: a slice without its upper end)
Batch_Rest(ts, i) == SubSeq(ts, i + 1, Len(ts))
Batch(ts, i) == SubSeq(ts, i + 1, Min(i + BatchSize, Len(ts)))

\* i // batch_size
BatchNo(i) == i \div BatchSize

LogCall(b, out)  == [ev |-> "call",  batch |-> b, out |-> out,  secs |-> 0]
LogSleep(b, why, s) == [ev |-> "sleep", batch |-> b, out |-> why, secs |-> s]

EmbedInit ==
    /\ texts \in { [k \in 1..n |-> k] : n \in 0..MaxTexts }
    /\ bi = 0
    /\ attempt = 0
    /\ all_embeddings = << >>
    /\ elog = << >>
    /\ epc = "batch"
    /\ lastErr = NoErr

\* for i in range(0, total_texts, batch_size): ... if i > 0: time.sleep(1.0)
\* ... for attempt in range(max_retries):
BatchStart ==
    /\ epc = "batch"
    /\ bi < Len(texts)
    /\ elog' = IF bi > 0 THEN Append(elog, LogSleep(BatchNo(bi), "batch", BatchDelay))
                         ELSE elog
    /\ attempt' = 0
    /\ epc' = "try"
    /\ UNCHANGED << texts, bi, all_embeddings, lastErr >>
    /\ UNCHANGED << storeVars, concVars, auxVars >>

\* the outer loop is exhausted: return all_embeddings
ReturnEmbeddings ==
    /\ epc = "batch"
    /\ bi >= Len(texts)
    /\ epc' = "returned"
    /\ UNCHANGED << texts, bi, attempt, all_embeddings, elog, lastErr >>
    /\ UNCHANGED << storeVars, concVars, auxVars >>

\* batch_embeddings = self.embedding.embed_documents(batch) succeeds:
\* all_embeddings.extend(batch_embeddings); break
CallOk ==
    /\ epc = "try"
    /\ elog' = Append(elog, LogCall(BatchNo(bi), "ok"))
    /\ all_embeddings' = all_embeddings \o Batch(texts, bi)
    /\ bi' = bi + BatchSize
    /\ epc' = "batch"
    /\ UNCHANGED << texts, attempt, lastErr >>
    /\ UNCHANGED << storeVars, concVars, auxVars >>

\* embed_documents raises e: the except clause
CallRaises(e) ==
    /\ epc = "try"
    /\ lastErr' = e
    /\ IF IsRateLimit(e)
       THEN IF CanRetry(attempt)
            THEN \* time.sleep(delay); the inner loop goes on, and when it is
                 \* exhausted without a break the outer loop takes the next batch
                 /\ elog' = elog \o << LogCall(BatchNo(bi), Signal(e)),
                                       LogSleep(BatchNo(bi), "backoff", BackoffDelay(attempt)) >>
                 /\ attempt' = attempt + 1
                 /\ IF attempt + 1 < MaxRetries
                    THEN epc' = "try" /\ bi' = bi
                    ELSE epc' = "batch" /\ bi' = bi + BatchSize
            ELSE \* Failed after max_retries attempts: raise
                 /\ elog' = Append(elog, LogCall(BatchNo(bi), Signal(e)))
                 /\ epc' = "raised"
                 /\ UNCHANGED << attempt, bi >>
       ELSE \* Not a rate limit error, raise immediately
            /\ elog' = Append(elog, LogCall(BatchNo(bi), Signal(e)))
            /\ epc' = "raised"
            /\ UNCHANGED << attempt, bi >>
    /\ UNCHANGED << texts, all_embeddings >>
    /\ UNCHANGED << storeVars, concVars, auxVars >>

CallFails == \E e \in ProviderErrors : CallRaises(e)

\* The variables a specification does not use stay at these values.
StoreIdle ==
    /\ table = {}
    /\ table_exists = FALSE
    /\ extension_checked = FALSE
    /\ last = None

EmbedIdle ==
    /\ texts = << >>
    /\ bi = 0
    /\ attempt = 0
    /\ all_embeddings = << >>
    /\ elog = << >>
    /\ epc = "idle"
    /\ lastErr = NoErr

ConcIdle ==
    /\ cpc = None
    /\ cst = None

\* _connection_pool = None: the module holds no pool
NoPool == 0

PoolIdle ==
    /\ connection_pool = NoPool
    /\ pools = << >>
    /\ tpc = None
    /\ tst = None

\* os.path.exists(self.pca_model_path) is false; self.pca_model = None
NoModel == 0

ReduceIdle ==
    /\ pca_file = NoModel
    /\ pca_model = << >>

AuxIdle == pending = << >> /\ PoolIdle /\ ReduceIdle

InitEmbed == EmbedInit /\ StoreIdle /\ ConcIdle /\ AuxIdle

NextEmbed ==
    \/ BatchStart
    \/ ReturnEmbeddings
    \/ CallOk
    \/ CallFails

SpecEmbed == InitEmbed /\ [][NextEmbed]_vars

(***************************************************************************)
(* Claims about the embedding ingestion loop (checked under SpecEmbed).    *)
(***************************************************************************)
Batches == 0..BatchNo(MaxTexts)

LogCount(b, ev, out) ==
    Cardinality({ k \in 1..Len(elog) :
                    elog[k].batch = b /\ elog[k].ev = ev /\ elog[k].out = out })

RateLimitsOf(b) == LogCount(b, "call", "rate_limit")
CallsOf(b) == RateLimitsOf(b) + LogCount(b, "call", "ok") + LogCount(b, "call", "error")
BatchOk(b) == LogCount(b, "call", "ok") = 1

\* C9: a batch whose provider call is rate-limited N < 7 times and then succeeds
\* is embedded with exactly N+1 calls; a batch that is rate-limited every time
\* makes the ingestion raise after exactly 7 calls, it is never retried further
\* and never passed over; the attempt counter counts the calls of the current
\* batch only.
C9_RetryTermination ==
    /\ \A b \in Batches :
          /\ CallsOf(b) <= 7
          /\ BatchOk(b) => RateLimitsOf(b) < 7 /\ CallsOf(b) = RateLimitsOf(b) + 1
          /\ (b < BatchNo(bi) \/ epc = "returned") /\ b * BatchSize < Len(texts)
                => BatchOk(b)
    /\ epc = "raised" /\ Signal(lastErr) = "rate_limit"
          => CallsOf(BatchNo(bi)) = 7 /\ RateLimitsOf(BatchNo(bi)) = 7
    /\ epc = "try" => attempt = CallsOf(BatchNo(bi)) /\ attempt < 7

\* C9 witness: the second batch succeeds at its seventh call after the first
\* batch had used six retries of its own.
C9_Witness ==
    /\ epc = "returned"
    /\ RateLimitsOf(0) = 6 /\ CallsOf(0) = 7
    /\ RateLimitsOf(1) = 6 /\ CallsOf(1) = 7

\* C10: a provider error that is not a rate-limit signal ends the ingestion at
\* once: the failing call is the last thing the loop does (no retry, no backoff
\* sleep after it), a batch that saw no rate limit before it was attempted
\* exactly once, and no later batch is attempted.
C10_OtherErrorFailsFast ==
    /\ \A k \in 1..Len(elog) :
          elog[k].ev = "call" /\ elog[k].out = "error"
              => k = Len(elog) /\ epc = "raised"
    /\ epc = "raised" /\ Signal(lastErr) = "error"
          => /\ elog[Len(elog)] = LogCall(BatchNo(bi), "error")
             /\ CallsOf(BatchNo(bi)) = RateLimitsOf(BatchNo(bi)) + 1
             /\ LogCount(BatchNo(bi), "sleep", "backoff") = RateLimitsOf(BatchNo(bi))
             /\ RateLimitsOf(BatchNo(bi)) = 0 => CallsOf(BatchNo(bi)) = 1
             /\ \A b \in Batches : b > BatchNo(bi) => CallsOf(b) = 0

\* C10 witness: the first batch of a two-batch ingestion fails on its first
\* call with an error that is no rate limit.
C10_Witness ==
    /\ epc = "raised" /\ Signal(lastErr) = "error"
    /\ Len(texts) > BatchSize
    /\ BatchNo(bi) = 0
    /\ CallsOf(0) = 1

\* C26: the texts are embedded in batches of at most 5, one batch after
\* another in input order; the inter-batch delay is waited once before every
\* batch except the first, ahead of the batch's first call; and an ingestion
\* that returns has one embedding per text, in input order.
C26_SequentialBatches ==
    /\ \A b \in Batches : Len(Batch(texts, b * BatchSize)) <= 5
    /\ \A k, l \in 1..Len(elog) : k < l => elog[k].batch <= elog[l].batch
    /\ \A k \in 1..Len(elog) :
          elog[k].ev = "call" /\ elog[k].batch > 0
              => \E j \in 1..(k - 1) : elog[j] = LogSleep(elog[k].batch, "batch", 1)
    /\ \A b \in Batches :
          LogCount(b, "sleep", "batch") =
              IF /\ b > 0 /\ b * BatchSize < Len(texts)
                 /\ (b < BatchNo(bi) \/ (b = BatchNo(bi) /\ epc \in { "try", "raised" }))
              THEN 1 ELSE 0
    /\ epc = "returned" =>
          /\ Len(all_embeddings) = Len(texts)
          /\ \A k \in 1..Len(texts) : all_embeddings[k] = texts[k]

\* C26 witness: an ingestion of more than 5 texts returned after its second
\* batch, which waited the inter-batch delay and was called once.
C26_Witness ==
    /\ epc = "returned"
    /\ Len(texts) > 5
    /\ CallsOf(0) = 1 /\ CallsOf(1) = 1
    /\ LogCount(1, "sleep", "batch") = 1

(***************************************************************************)
(* The relational engine and the record store: PgVectorStore.              *)
(*                                                                         *)
(* A row of vector_documents is                                            *)
(*   [id, user_id, collection_name, record_type, record_id, data, source,  *)
(*    application_id, origin]                                              *)
(* where record_type .. application_id are the metadata keys the queries   *)
(* read (None when the key is absent, SQL NULL) and origin is a ghost      *)
(* field: the user_id the row was inserted under.                          *)
(*                                                                         *)
(* Failures are injected per call: `f` names the one statement kind that   *)
(* raises during the call ("pool": get_connection_pool raises, so every    *)
(* connection scope of the call raises), or is "ok".                       *)
(***************************************************************************)
Users == { LEGACY_DEFAULT_USER_ID, "google_ann", "linkedin_bob" }
Collections == { "applications" }
RecordIds == { "app_1" }
Payloads == { "v1", "v2" }

\* self.user_id LIKE 'google_%' (in LIKE, _ matches any one character)
LikeGoogle(u) == u \in { "google_ann" }

DbFails(f, point) == f = "pool" \/ f = point

\* a statement on vector_documents succeeds: the table exists and nothing fails
DbOk(te, f, point) == te /\ ~DbFails(f, point)

\* ensure_pgvector_extension, as __init__ calls it (the exception is printed)
EnsureExtension(chk, f) == chk \/ ~DbFails(f, "extension")

\* _ensure_table_exists: creates the table when it is missing (with the probed
\* dimension, or 768 when the probe fails); any exception is printed
EnsureTable(te, f) == IF DbFails(f, "table") THEN te ELSE TRUE

\* WHERE user_id = %s AND collection_name = %s
\* (InScope_NoTenant: the clause without its user_id conjunct)
InScope_NoTenant(tbl, u, c) == { r \in tbl : r.collection_name = c }
InScope(tbl, u, c) == { r \in tbl : r.user_id = u /\ r.collection_name = c }

\* SQL three-valued logic for the WHERE clause of the migration UPDATE:
\*   NOT (metadata->>'source' = 'linkedin-job-page' AND %s LIKE 'google_%%')
\* "T", "F" or "N" (NULL); a row is updated only when the clause is "T".
SqlEq(x, y) == IF x = None THEN "N" ELSE IF x = y THEN "T" ELSE "F"
SqlBool(b) == IF b THEN "T" ELSE "F"
SqlAnd(a, b) ==
    IF a = "F" \/ b = "F" THEN "F" ELSE IF a = "T" /\ b = "T" THEN "T" ELSE "N"
SqlNot(a) == IF a = "T" THEN "F" ELSE IF a = "F" THEN "T" ELSE "N"

MigrateKeeps(r, u) ==
    SqlNot(SqlAnd(SqlEq(r.source, "linkedin-job-page"), SqlBool(LikeGoogle(u)))) # "T"

\* _migrate_legacy_user_data, the rows after it (one connection scope, rolled
\* back as a whole when it raises; the exception is printed)
\* (MigrateLegacy_NoPreCheck: the migration without the count of the target
\* tenant's documents)
MigrateLegacy_NoPreCheck(tbl, te, u, c, f) ==
    IF u = LEGACY_DEFAULT_USER_ID THEN tbl
    ELSE IF ~DbOk(te, f, "migrate") THEN tbl
    ELSE { IF r.user_id = LEGACY_DEFAULT_USER_ID /\ r.collection_name = c
              /\ ~MigrateKeeps(r, u)
           THEN [r EXCEPT !.user_id = u] ELSE r : r \in tbl }
MigrateLegacy(tbl, te, u, c, f) ==
    IF u = LEGACY_DEFAULT_USER_ID THEN tbl
    ELSE IF ~DbOk(te, f, "migrate") THEN tbl
    ELSE IF InScope(tbl, u, c) # {} THEN tbl
    ELSE IF InScope(tbl, LEGACY_DEFAULT_USER_ID, c) = {} THEN tbl
    ELSE { IF r.user_id = LEGACY_DEFAULT_USER_ID /\ r.collection_name = c
              /\ ~MigrateKeeps(r, u)
           THEN [r EXCEPT !.user_id = u] ELSE r : r \in tbl }

\* PgVectorStore.__init__: the table after construction
CtorTableExists(te, f) == EnsureTable(te, f)
CtorRows(tbl, te, u, c, f) == MigrateLegacy(tbl, CtorTableExists(te, f), u, c, f)

\* _delete_by_metadata: DELETE ... WHERE user_id AND collection_name AND
\* metadata->>key = value for every key of the filter; filter is a record of
\* metadata keys
MatchesFilter(r, flt) ==
    \A key \in DOMAIN flt : r[key] = flt[key]

\* (DeleteMatching_Nothing: a DELETE whose WHERE clause matches no row)
DeleteMatching_Nothing(tbl, u, c, flt) == tbl
DeleteMatching(tbl, u, c, flt) ==
    { r \in tbl : ~(r.user_id = u /\ r.collection_name = c /\ MatchesFilter(r, flt)) }

\* doc_id = str(uuid.uuid4()): an id no row of the table has; the model takes
\* the next number, so that ids also order the rows by created_at
MaxId(tbl) == IF tbl = {} THEN 0 ELSE CHOOSE m \in { r.id : r \in tbl } :
                                        \A r \in tbl : r.id <= m
NewId(tbl) == MaxId(tbl) + 1

\* add_texts: the row it inserts for one text with the given metadata
NewRow(id, u, c, meta) ==
    [ id |-> id, user_id |-> u, collection_name |-> c,
      record_type |-> meta.record_type, record_id |-> meta.record_id,
      data |-> meta.data, source |-> meta.source,
      application_id |-> meta.application_id, origin |-> u ]

\* sync_application_to_vector_store: the metadata of an application
ApplicationMeta(rid, d) ==
    [ record_type |-> "application", record_id |-> rid, data |-> d,
      source |-> "application", application_id |-> rid ]

\* get_by_record_id: the rows its WHERE clause selects (LIMIT 1 takes one)
RecordRows(tbl, u, c, rt, rid) ==
    { r \in InScope(tbl, u, c) : r.record_type = rt /\ r.record_id = rid }

\* list_records without field filters: the rows its WHERE clause selects
ListRows(tbl, u, c, rt) ==
    { r \in InScope(tbl, u, c) : r.record_type = rt }

\* similarity_search: WHERE user_id AND collection_name ... LIMIT k
SearchRows(tbl, u, c) == InScope(tbl, u, c)

\* What the caller of a call observed (result, rows) and, as ghost fields, what
\* the call did: failed (a statement of the call raised, whether or not the
\* exception reached the caller), before (the payloads stored for the logical
\* record when the call began), deleted / inserted (the DELETE / INSERT
\* statement of the call was executed).
Obs(op, u, c, f) ==
    [ op |-> op, user |-> u, coll |-> c,
      rid |-> None, data |-> None, result |-> None, rows |-> {},
      failed |-> FALSE, before |-> {}, deleted |-> FALSE, inserted |-> FALSE ]

CtorFaults == { "ok", "pool", "extension", "table", "migrate" }
WriteFaults == CtorFaults \cup { "delete", "embed", "insert" }
ReadFaults == { "ok", "pool", "query", "embed" }

\* a bootstrap statement of __init__ raised
BootstrapFailed(f) == DbFails(f, "extension") \/ DbFails(f, "table")

\* PgVectorStore(collection_name=c, user_id=u). A store object holds only its
\* (collection_name, user_id) and no other state the calls below read, and the
\* constructor returns a store whatever fails inside it, so a client can hold a
\* store for any (user, collection) in any state of the engine: the model keeps
\* no set of constructed stores.
Construct(u, c, f) ==
    /\ extension_checked' = EnsureExtension(extension_checked, f)
    /\ table_exists' = CtorTableExists(table_exists, f)
    /\ table' = CtorRows(table, table_exists, u, c, f)
    /\ last' = [ Obs("construct", u, c, f) EXCEPT
                   !.result = "store",
                   !.failed = BootstrapFailed(f) ]
    /\ UNCHANGED << embedVars, concVars, auxVars >>

ConstructStore == \E u \in Users, c \in Collections, f \in CtorFaults : Construct(u, c, f)

\* the payloads stored for a logical record
StoredPayloads(tbl, u, c, rt, rid) == { r.data : r \in RecordRows(tbl, u, c, rt, rid) }

\* store.add_texts([text], metadatas=[meta]) on the rows tbl: the rows after it.
\* _ensure_table_exists, then the embedding (after its retries), then the
\* INSERT in one connection scope.
AddTextsInserts(te, f) == f # "embed" /\ DbOk(EnsureTable(te, f), f, "insert")
\* (AddTextsRows_Lost: an INSERT that is reported but stores no row)
AddTextsRows_Lost(tbl, te, u, c, meta, f) == tbl
AddTextsRows(tbl, te, u, c, meta, f) ==
    IF AddTextsInserts(te, f) THEN tbl \cup { NewRow(NewId(tbl), u, c, meta) } ELSE tbl

\* sync_application_to_vector_store(app, user_id): the delete step.
\* _delete_by_metadata opens its own connection scope and commits it; when the
\* statement raises, the exception is printed and False returned, which the
\* caller does not read.
UpsertFilter(rid) == [ record_id |-> rid, record_type |-> "application" ]
UpsertDeletes(te, f) == DbOk(te, f, "delete")
\* (UpsertDeleteRows_Skip: an upsert that omits its delete step)
UpsertDeleteRows_Skip(tbl, te, u, c, rid, f) == tbl
UpsertDeleteRows(tbl, te, u, c, rid, f) ==
    IF UpsertDeletes(te, f) THEN DeleteMatching(tbl, u, c, UpsertFilter(rid)) ELSE tbl

\* sync_application_to_vector_store(app, user_id) on the rows tbl: every call
\* constructs a new PgVectorStore("applications", user_id), then deletes, then
\* adds. SyncDeleted is the table after the delete step, SyncRows the table
\* after the call; SyncReturns is its return value: True unless an exception
\* reached its except clause, and only add_texts can raise one.
SyncDeleted(tbl, te, u, rid, f) ==
    UpsertDeleteRows(CtorRows(tbl, te, u, "applications", f),
                     CtorTableExists(te, f), u, "applications", rid, f)
SyncRows(tbl, te, u, rid, d, f) ==
    AddTextsRows(SyncDeleted(tbl, te, u, rid, f), CtorTableExists(te, f),
                 u, "applications", ApplicationMeta(rid, d), f)
SyncTableExists(te, f) == EnsureTable(CtorTableExists(te, f), f)
SyncReturns(te, f) == AddTextsInserts(CtorTableExists(te, f), f)

\* sync_application_to_vector_store(app, user_id) as a whole
SyncApplication(u, rid, d, f) ==
    LET c    == "applications"
        tbl1 == CtorRows(table, table_exists, u, c, f)
    IN  /\ NewId(SyncDeleted(table, table_exists, u, rid, f)) <= MaxDocs
        /\ extension_checked' = EnsureExtension(extension_checked, f)
        /\ table_exists' = SyncTableExists(table_exists, f)
        /\ table' = SyncRows(table, table_exists, u, rid, d, f)
        /\ last' = [ Obs("upsert", u, c, f) EXCEPT
                       !.rid = rid, !.data = d,
                       !.result = SyncReturns(table_exists, f),
                       !.failed = f # "ok",
                       !.before = StoredPayloads(tbl1, u, c, "application", rid),
                       !.deleted = UpsertDeletes(CtorTableExists(table_exists, f), f),
                       !.inserted = SyncReturns(table_exists, f) ]
        /\ UNCHANGED << embedVars, concVars, auxVars >>

Upsert ==
    \E u \in Users, rid \in RecordIds, d \in Payloads, f \in WriteFaults :
        SyncApplication(u, rid, d, f)

\* delete_from_vector_store('application', record_id, user_id): a new
\* PgVectorStore("applications", user_id), then _delete_by_metadata with the
\* filter {application_id: record_id}. DeleteStoreRows is the table after the
\* call, DeleteStoreReturns its return value: cursor.rowcount > 0, or False
\* when the DELETE raised.
DeleteStoreDeletes(te, f) == DbOk(CtorTableExists(te, f), f, "delete")
DeleteStoreRows(tbl, te, u, rid, f) ==
    IF DeleteStoreDeletes(te, f)
    THEN DeleteMatching(CtorRows(tbl, te, u, "applications", f), u, "applications",
                        [ application_id |-> rid ])
    ELSE CtorRows(tbl, te, u, "applications", f)
\* (DeleteStoreReturns_True: a delete that reports success whatever happened)
DeleteStoreReturns_True(tbl, te, u, rid, f) == TRUE
DeleteStoreReturns(tbl, te, u, rid, f) ==
    /\ DeleteStoreDeletes(te, f)
    /\ DeleteStoreRows(tbl, te, u, rid, f) # CtorRows(tbl, te, u, "applications", f)

DeleteFromVectorStore(u, rid, f) ==
    LET c    == "applications"
        tbl1 == CtorRows(table, table_exists, u, c, f)
    IN  /\ extension_checked' = EnsureExtension(extension_checked, f)
        /\ table_exists' = CtorTableExists(table_exists, f)
        /\ table' = DeleteStoreRows(table, table_exists, u, rid, f)
        /\ last' = [ Obs("delete", u, c, f) EXCEPT
                       !.rid = rid,
                       !.result = DeleteStoreReturns(table, table_exists, u, rid, f),
                       !.failed = f # "ok",
                       !.before = StoredPayloads(tbl1, u, c, "application", rid),
                       !.deleted = DeleteStoreDeletes(table_exists, f) ]
        /\ UNCHANGED << embedVars, concVars, auxVars >>

DeleteRecord ==
    \E u \in Users, rid \in RecordIds, f \in CtorFaults \cup { "delete" } :
        DeleteFromVectorStore(u, rid, f)

\* store.get_by_record_id('application', rid): the except clause prints the
\* exception and returns None
GetByRecordId(u, c, rid, f) ==
    /\ IF ~DbOk(table_exists, f, "query")
       THEN last' = [ Obs("get", u, c, f) EXCEPT !.rid = rid, !.failed = TRUE ]
       ELSE IF RecordRows(table, u, c, "application", rid) = {}
       THEN last' = [ Obs("get", u, c, f) EXCEPT !.rid = rid ]
       ELSE \E r \in RecordRows(table, u, c, "application", rid) :
              last' = [ Obs("get", u, c, f) EXCEPT
                          !.rid = rid, !.result = r.data, !.rows = { r } ]
    /\ UNCHANGED << table, table_exists, extension_checked,
                    embedVars, concVars, auxVars >>

GetRecord ==
    \E u \in Users, c \in Collections, rid \in RecordIds, f \in { "ok", "pool", "query" } :
        GetByRecordId(u, c, rid, f)

\* store.list_records('application'): the except clause prints the exception
\* and returns []
ListRecords(u, c, f) ==
    /\ last' = IF ~DbOk(table_exists, f, "query")
               THEN [ Obs("list", u, c, f) EXCEPT !.result = "list", !.failed = TRUE ]
               ELSE [ Obs("list", u, c, f) EXCEPT
                        !.result = "list", !.rows = ListRows(table, u, c, "application") ]
    /\ UNCHANGED << table, table_exists, extension_checked,
                    embedVars, concVars, auxVars >>

ListApplications ==
    \E u \in Users, c \in Collections, f \in { "ok", "pool", "query" } : ListRecords(u, c, f)

\* store.similarity_search(query, k): embed_query and _reduce_query_embedding
\* run before the try block; the except clause of the query returns []
SimilaritySearch(u, c, k, f) ==
    /\ IF f = "embed"
       THEN last' = [ Obs("search", u, c, f) EXCEPT !.result = "raised", !.failed = TRUE ]
       ELSE IF ~DbOk(table_exists, f, "query")
       THEN last' = [ Obs("search", u, c, f) EXCEPT !.result = "list", !.failed = TRUE ]
       ELSE \E S \in SUBSET SearchRows(table, u, c) :
              /\ Cardinality(S) = Min(k, Cardinality(SearchRows(table, u, c)))
              /\ last' = [ Obs("search", u, c, f) EXCEPT !.result = "list", !.rows = S ]
    /\ UNCHANGED << table, table_exists, extension_checked,
                    embedVars, concVars, auxVars >>

Search ==
    \E u \in Users, c \in Collections, k \in 1..2, f \in ReadFaults :
        SimilaritySearch(u, c, k, f)

StoreInit ==
    /\ table = {}
    /\ table_exists = FALSE
    /\ extension_checked = FALSE
    /\ last = Obs(None, None, None, "ok")

Init == StoreInit /\ EmbedIdle /\ ConcIdle /\ AuxIdle

Next ==
    \/ ConstructStore
    \/ Upsert
    \/ DeleteRecord
    \/ GetRecord
    \/ ListApplications
    \/ Search

Spec == Init /\ [][Next]_vars

(***************************************************************************)
(* Claims about the record store (checked under Spec).                     *)
(***************************************************************************)
LastRecordRows == RecordRows(table, last.user, last.coll, "application", last.rid)

Reads == { "get", "list", "search" }

\* C2 as stated: a read scoped to tenant A returns no document that was
\* written under another tenant B.
C2_TenantIsolation_Original ==
    last.op \in Reads => \A r \in last.rows : r.origin = last.user

\* C2 as amended: a read scoped to tenant A returns only rows whose user_id is
\* A, and each of them was written under A or was written under the fallback
\* tenant default_user and reassigned to A by the legacy migration; no
\* document written under a tenant other than default_user is ever returned to
\* (or stored under) another tenant.
C2_TenantIsolation ==
    /\ last.op \in Reads
          => \A r \in last.rows :
                /\ r.user_id = last.user
                /\ r.origin \in { last.user, LEGACY_DEFAULT_USER_ID }
    /\ \A r \in table : r.origin \in { r.user_id, LEGACY_DEFAULT_USER_ID }

\* C2 witness: tenant A reads its document back while a document of another
\* real tenant is stored in the same collection.
C2_Witness ==
    /\ last.op \in Reads /\ last.rows # {}
    /\ last.user # LEGACY_DEFAULT_USER_ID
    /\ \E r \in table :
          /\ r.user_id \notin { last.user, LEGACY_DEFAULT_USER_ID }
          /\ r.collection_name = last.coll
          /\ r.origin = r.user_id

\* C3 as stated: the delete and the insert of one upsert take effect together
\* or not at all, so after an upsert that did not insert, every payload that
\* was stored for the logical record is still stored.
C3_UpsertAtomic ==
    last.op = "upsert" /\ ~last.inserted
        => last.before \subseteq
             StoredPayloads(table, last.user, last.coll, "application", last.rid)

\* C6 as stated: get_by_record_id and list_records raise when their query
\* fails.
C6_ReadFailuresRaise ==
    last.op \in { "get", "list" } /\ last.failed => last.result = "raised"

\* C7 as stated: similarity_search returns an empty list on every read-path
\* failure, the query embedding included.
C7_SearchFailuresReturnEmpty ==
    last.op = "search" /\ last.failed => last.result = "list" /\ last.rows = {}

\* C8 as stated: a failure to ensure the extension or the table is raised to
\* the caller of the constructor.
C8_BootstrapFailureRaised ==
    last.op = "construct" /\ last.failed => last.result = "raised"

\* C19: the legacy migration is idempotent by pre-check.  A construction
\* changes no document when the store's tenant is the fallback tenant or
\* already has a document in the collection; and after a construction that
\* moved documents, constructing the store again, whatever fails in it,
\* changes nothing.
C19_MigrationIdempotent ==
    [][ last'.op = "construct" =>
          /\ last'.user = LEGACY_DEFAULT_USER_ID => table' = table
          /\ InScope(table, last'.user, last'.coll) # {} => table' = table
          /\ table' # table =>
                \A f \in CtorFaults :
                    CtorRows(table', table_exists', last'.user, last'.coll, f) = table'
      ]_vars

\* C19 witness: a store was constructed for a tenant that holds documents
\* moved to it from the fallback tenant, while the fallback tenant still has
\* documents in the same collection.
C19_Witness ==
    /\ last.op = "construct" /\ ~last.failed
    /\ last.user # LEGACY_DEFAULT_USER_ID
    /\ \E r \in InScope(table, last.user, last.coll) : r.origin = LEGACY_DEFAULT_USER_ID
    /\ InScope(table, LEGACY_DEFAULT_USER_ID, last.coll) # {}

(***************************************************************************)
(* Two clients upserting the same logical record concurrently.  A step is  *)
(* one connection scope of sync_application_to_vector_store: the           *)
(* constructor, the DELETE of _delete_by_metadata (its own scope, committed *)
(* on exit), the embedding and INSERT of add_texts (another scope).        *)
(***************************************************************************)
Clients == { "c1", "c2" }
ConcUser == "google_ann"
ConcRecord == "app_1"
ConcFaults == { "ok", "delete", "embed" }

Other(cl) == CHOOSE o \in Clients : o # cl
InFlight(cl) == cpc[cl] \in { "constructed", "deleted" }

ConcInit ==
    /\ table \in { {}, { NewRow(1, ConcUser, "applications",
                                ApplicationMeta(ConcRecord, "v1")) } }
    /\ table_exists = TRUE
    /\ extension_checked = TRUE
    /\ last = Obs(None, None, None, "ok")
    /\ cpc = [ cl \in Clients |-> "idle" ]
    /\ cst = [ cl \in Clients |->
                 [ data |-> None, fault |-> "ok", deleted |-> FALSE,
                   inserted |-> FALSE, overlapped |-> FALSE,
                   interleaved |-> FALSE ] ]

\* the call begins: PgVectorStore(collection_name="applications", user_id)
ConcStart(cl) ==
    /\ cpc[cl] = "idle"
    /\ \E d \in Payloads, f \in ConcFaults :
          /\ table' = CtorRows(table, table_exists, ConcUser, "applications", f)
          /\ table_exists' = CtorTableExists(table_exists, f)
          /\ extension_checked' = EnsureExtension(extension_checked, f)
          /\ cst' = [ cst EXCEPT ![cl].data = d, ![cl].fault = f,
                                 ![cl].overlapped = InFlight(Other(cl)) ]
    /\ cpc' = [ cpc EXCEPT ![cl] = "constructed" ]
    /\ UNCHANGED << last, embedVars, auxVars >>

\* _delete_by_metadata(vector_store, {record_id, record_type})
ConcDelete(cl) ==
    /\ cpc[cl] = "constructed"
    /\ table' = UpsertDeleteRows(table, table_exists, ConcUser, "applications",
                                 ConcRecord, cst[cl].fault)
    /\ cst' = [ cst EXCEPT ![cl].deleted = UpsertDeletes(table_exists, cst[cl].fault),
                           ![cl].interleaved = (cpc[Other(cl)] = "deleted") ]
    /\ cpc' = [ cpc EXCEPT ![cl] = "deleted" ]
    /\ UNCHANGED << table_exists, extension_checked, last, embedVars, auxVars >>

\* vector_store.add_texts([text], metadatas=[metadata]) and the return
ConcInsert(cl) ==
    /\ cpc[cl] = "deleted"
    /\ table' = AddTextsRows(table, table_exists, ConcUser, "applications",
                             ApplicationMeta(ConcRecord, cst[cl].data), cst[cl].fault)
    /\ table_exists' = EnsureTable(table_exists, cst[cl].fault)
    /\ cst' = [ cst EXCEPT ![cl].inserted = AddTextsInserts(table_exists, cst[cl].fault) ]
    /\ cpc' = [ cpc EXCEPT ![cl] = "done" ]
    /\ UNCHANGED << extension_checked, last, embedVars, auxVars >>

ClientStarts == \E cl \in Clients : ConcStart(cl)
ClientDeletes == \E cl \in Clients : ConcDelete(cl)
ClientInserts == \E cl \in Clients : ConcInsert(cl)

InitConc == ConcInit /\ EmbedIdle /\ AuxIdle
NextConc ==
    \/ ClientStarts
    \/ ClientDeletes
    \/ ClientInserts
SpecConc == InitConc /\ [][NextConc]_vars

(***************************************************************************)
(* Claims about concurrent upserts (checked under SpecConc).               *)
(***************************************************************************)
ConcCount == Cardinality(RecordRows(table, ConcUser, "applications",
                                    "application", ConcRecord))
BothDone == \A cl \in Clients : cpc[cl] = "done"
BothCompleted == BothDone /\ \A cl \in Clients : cst[cl].deleted /\ cst[cl].inserted
Overlapped == \E cl \in Clients : cst[cl].overlapped
Interleaved == \E cl \in Clients : cst[cl].interleaved

C27_LastInsertSurvives ==
    /\ []((\A cl \in Clients : cpc[cl] = "done" /\ cst[cl].inserted) => ConcCount >= 1)
    /\ [][ \A cl \in Clients :
              /\ cpc[cl] = "deleted" /\ cpc'[cl] = "done" /\ cst'[cl].inserted
              /\ cpc[Other(cl)] = "done" /\ cst[Other(cl)].inserted
              => /\ \E r \in table' \ table :
                       r.record_id = ConcRecord /\ r.data = cst[cl].data
                 /\ table \subseteq table'
          ]_vars
    /\ [][ (\E r \in table : r \notin table')
              => \E cl \in Clients : cpc[cl] = "constructed" /\ cpc'[cl] = "deleted"
          ]_vars

\* C27 witness: both upserts completed one after the other's delete: the
\* second upsert's delete removed the first one's document, and the document
\* of the last insert is the one stored.
C27_Witness ==
    /\ BothCompleted /\ Overlapped /\ ~Interleaved
    /\ ConcCount = 1
    /\ \E cl \in Clients : cst[cl].data # cst[Other(cl)].data

(***************************************************************************)
(* JobSearchDB: the application CRUD of storage/json_db.py for one user.   *)
(* An application is abstracted to its status (row.data is the status of   *)
(* the stored application dict); all applications are for the same company *)
(* and role, so the company/role filter of add_application selects every   *)
(* application of the user.                                                *)
(***************************************************************************)
JobUser == "google_ann"
JobIds == { "app_1", "app_2" }
Statuses == { "applied", "interview", "rejected" }
TerminalStatuses == { "rejected", "withdrawn", "accepted" }
JobFaults == WriteFaults \cup { "query" }
JobWrites == { "add_application", "update_application", "update_status" }

JobObs(op, rid, d, f) ==
    [ Obs(op, JobUser, "applications", f) EXCEPT !.rid = rid, !.data = d ]

\* self.applications_store.list_records(record_type='application', filters=...)
ExistingApps(tbl, te, f) ==
    IF DbOk(te, f, "query") THEN ListRows(tbl, JobUser, "applications", "application")
    ELSE {}

\* the duplicate check of add_application
DuplicateActive(tbl, te, f) ==
    \E r \in ExistingApps(tbl, te, f) : r.data \notin TerminalStatuses

\* the try block around sync_application_to_vector_store: its return value is
\* not read, and it raises nothing
JobSync(op, rid, d, f, success) ==
    /\ NewId(SyncDeleted(table, table_exists, JobUser, rid, f)) <= MaxDocs
    /\ extension_checked' = EnsureExtension(extension_checked, f)
    /\ table_exists' = SyncTableExists(table_exists, f)
    /\ table' = SyncRows(table, table_exists, JobUser, rid, d, f)
    /\ last' = [ JobObs(op, rid, d, f) EXCEPT
                   !.result = success,
                   !.failed = ~SyncReturns(table_exists, f),
                   !.before = StoredPayloads(table, JobUser, "applications",
                                             "application", rid),
                   !.deleted = UpsertDeletes(CtorTableExists(table_exists, f), f),
                   !.inserted = SyncReturns(table_exists, f) ]

\* JobSearchDB.add_application(app)
AddApplicationCall(rid, d, f) ==
    /\ IF DuplicateActive(table, table_exists, f)
       THEN /\ last' = [ JobObs("add_application", rid, d, f) EXCEPT
                           !.result = "raised" ]
            /\ UNCHANGED << table, table_exists, extension_checked >>
       ELSE JobSync("add_application", rid, d, f, "id")
    /\ UNCHANGED << embedVars, concVars, auxVars >>

AddApplication ==
    \E rid \in JobIds, d \in Statuses, f \in JobFaults : AddApplicationCall(rid, d, f)

\* the application get_by_record_id hands to update_application / update_status
JobFound(rid, f) ==
    IF DbOk(table_exists, f, "query")
    THEN RecordRows(table, JobUser, "applications", "application", rid)
    ELSE {}

JobNotFound(op, rid, f) ==
    /\ last' = [ JobObs(op, rid, None, f) EXCEPT
                   !.result = "false",
                   !.failed = ~DbOk(table_exists, f, "query"),
                   !.before = StoredPayloads(table, JobUser, "applications",
                                             "application", rid) ]
    /\ UNCHANGED << table, table_exists, extension_checked >>

\* JobSearchDB.update_application(app_id, updates): updates either holds a
\* status or leaves the status of the application that was read
UpdateApplicationCall(rid, upd, f) ==
    /\ IF JobFound(rid, f) = {}
       THEN JobNotFound("update_application", rid, f)
       ELSE \E r \in JobFound(rid, f) :
              JobSync("update_application", rid,
                      IF upd = None THEN r.data ELSE upd, f, "true")
    /\ UNCHANGED << embedVars, concVars, auxVars >>

UpdateApplication ==
    \E rid \in JobIds, upd \in Statuses \cup { None }, f \in JobFaults :
        UpdateApplicationCall(rid, upd, f)

\* JobSearchDB.update_status(app_id, new_status): Application.update_status
\* sets the status and appends a timeline event
UpdateStatusCall(rid, new_status, f) ==
    /\ IF JobFound(rid, f) = {}
       THEN JobNotFound("update_status", rid, f)
       ELSE JobSync("update_status", rid, new_status, f, "true")
    /\ UNCHANGED << embedVars, concVars, auxVars >>

UpdateStatus ==
    \E rid \in JobIds, s \in Statuses, f \in JobFaults : UpdateStatusCall(rid, s, f)

\* JobSearchDB.delete_application(app_id): not found when get_by_record_id
\* returns nothing, else the result of delete_from_vector_store
DeleteApplicationCall(rid, f) ==
    /\ IF JobFound(rid, f) = {}
       THEN JobNotFound("delete_application", rid, f)
       ELSE /\ extension_checked' = EnsureExtension(extension_checked, f)
            /\ table_exists' = CtorTableExists(table_exists, f)
            /\ table' = DeleteStoreRows(table, table_exists, JobUser, rid, f)
            /\ last' = [ JobObs("delete_application", rid, None, f) EXCEPT
                           !.result = IF DeleteStoreReturns(table, table_exists, JobUser, rid, f)
                                      THEN "true" ELSE "false",
                           !.failed = f # "ok",
                           !.before = StoredPayloads(table, JobUser, "applications",
                                                     "application", rid),
                           !.deleted = DeleteStoreDeletes(table_exists, f) ]
    /\ UNCHANGED << embedVars, concVars, auxVars >>

DeleteApplication ==
    \E rid \in JobIds, f \in CtorFaults \cup { "delete", "query" } :
        DeleteApplicationCall(rid, f)

\* after JobSearchDB(user_id=JobUser): the stores are constructed, nothing stored
JobsInit ==
    /\ table = {}
    /\ table_exists = TRUE
    /\ extension_checked = TRUE
    /\ last = Obs(None, None, None, "ok")

InitJobs == JobsInit /\ EmbedIdle /\ ConcIdle /\ AuxIdle
NextJobs ==
    \/ AddApplication
    \/ UpdateApplication
    \/ UpdateStatus
    \/ DeleteApplication
SpecJobs == InitJobs /\ [][NextJobs]_vars

(***************************************************************************)
(* Claims about JobSearchDB (checked under SpecJobs).                      *)
(***************************************************************************)
\* C5 as stated: a write that returned a success value (the record id, or
\* True) has stored the record it was given.
C5_NoFireAndForget ==
    last.op \in JobWrites /\ last.result \in { "id", "true" }
        => last.data \in StoredPayloads(table, last.user, last.coll,
                                        "application", last.rid)

\* C14: delete_application returns True exactly when a document of the
\* logical record existed and the call removed it, and False otherwise, when
\* none is found included; it never raises; after True, get_by_record_id
\* finds no document of the record.
C14_DeleteResult ==
    last.op = "delete_application"
        => /\ last.result \in { "true", "false" }
           /\ last.result = "true"
                <=> /\ last.before # {}
                    /\ RecordRows(table, last.user, last.coll, "application", last.rid) = {}
           /\ last.before = {} => last.result = "false"

\* C14 witness: one of two stored applications was deleted with result True,
\* the other is still stored.
C14_Witness ==
    /\ last.op = "delete_application" /\ last.result = "true" /\ last.before # {}
    /\ RecordRows(table, last.user, last.coll, "application", last.rid) = {}
    /\ \E r \in table : r.user_id = last.user /\ r.record_id # last.rid

\* C21 as stated: add_application raises and stores nothing when the tenant
\* already has an application of the same company and role whose status is not
\* rejected, withdrawn or accepted; otherwise it stores the application and
\* returns its id.  (All applications of the model are for one company and
\* role.)
C21_DuplicatePrevention ==
    [][ last'.op = "add_application" =>
          IF \E r \in ListRows(table, JobUser, "applications", "application") :
                 r.data \notin TerminalStatuses
          THEN last'.result = "raised" /\ table' = table
          ELSE /\ last'.result = "id"
               /\ last'.data \in StoredPayloads(table', JobUser, "applications",
                                               "application", last'.rid)
      ]_vars

(***************************************************************************)
(* add_texts for several texts: _generate_embeddings_with_retry (the       *)
(* actions of SpecEmbed), then the INSERT loop inside one get_connection   *)
(* scope, one statement a step.  last.rows remembers the table the call    *)
(* found.                                                                  *)
(***************************************************************************)
IngestUser == "google_ann"
IngestCollection == "personal_assistant"

\* metadata of a document chunk: {"source": src}, no record keys
ChunkMeta(src) ==
    [ record_type |-> None, record_id |-> None, data |-> None,
      source |-> src, application_id |-> None ]

\* rows.append((doc_id, self.user_id, self.collection_name, text, ...)) for
\* the k-th text of the call
IngestRow(tbl, k) ==
    NewRow(MaxId(tbl) + k, IngestUser, IngestCollection, ChunkMeta("resume.pdf"))

Range(seq) == { seq[k] : k \in 1..Len(seq) }

\* get_connection: conn.commit() makes the statements of the scope durable,
\* conn.rollback() discards them
Commit(tbl, pend) == tbl \cup Range(pend)
\* (Rollback_Keeps: a rollback that leaves the executed statements in place)
Rollback_Keeps(tbl, pend) == tbl \cup Range(pend)
Rollback(tbl, pend) == tbl

IngestInit ==
    /\ EmbedInit
    /\ table \in { {}, { NewRow(1, IngestUser, IngestCollection, ChunkMeta("old.pdf")) } }
    /\ table_exists = TRUE
    /\ extension_checked = TRUE
    /\ last = [ Obs("add_texts", IngestUser, IngestCollection, "ok") EXCEPT !.rows = table ]
    /\ pending = << >>

\* cursor.execute("INSERT INTO vector_documents ...", row) for the next row
InsertRow ==
    /\ epc \in { "returned", "inserting" }
    /\ Len(pending) < Len(all_embeddings)
    /\ pending' = Append(pending, IngestRow(table, Len(pending) + 1))
    /\ epc' = "inserting"
    /\ last' = [ last EXCEPT !.inserted = TRUE ]
    /\ UNCHANGED << table, table_exists, extension_checked >>
    /\ UNCHANGED << texts, bi, attempt, all_embeddings, elog, lastErr >>
    /\ UNCHANGED << concVars, poolVars, reduceVars >>

\* a statement of the scope raises (get_connection itself, an INSERT, or the
\* commit): the scope rolls back, add_texts prints the exception and raises
InsertRaises ==
    /\ epc \in { "returned", "inserting" }
    /\ table' = Rollback(table, pending)
    /\ pending' = << >>
    /\ epc' = "raised"
    /\ last' = [ last EXCEPT !.failed = TRUE, !.result = "raised" ]
    /\ UNCHANGED << table_exists, extension_checked >>
    /\ UNCHANGED << texts, bi, attempt, all_embeddings, elog, lastErr >>
    /\ UNCHANGED << concVars, poolVars, reduceVars >>

\* conn.commit() after the last row; return ids
CommitInsert ==
    /\ epc \in { "returned", "inserting" }
    /\ Len(pending) = Len(all_embeddings)
    /\ table' = Commit(table, pending)
    /\ pending' = << >>
    /\ epc' = "stored"
    /\ last' = [ last EXCEPT !.result = "ids" ]
    /\ UNCHANGED << table_exists, extension_checked >>
    /\ UNCHANGED << texts, bi, attempt, all_embeddings, elog, lastErr >>
    /\ UNCHANGED << concVars, poolVars, reduceVars >>

InitIngest == IngestInit /\ ConcIdle /\ PoolIdle /\ ReduceIdle
NextIngest ==
    \/ BatchStart
    \/ ReturnEmbeddings
    \/ CallOk
    \/ CallFails
    \/ InsertRow
    \/ InsertRaises
    \/ CommitInsert
SpecIngest == InitIngest /\ [][NextIngest]_vars

(***************************************************************************)
(* Claims about add_texts (checked under SpecIngest).                      *)
(***************************************************************************)
StoredByCall == table \ last.rows

\* C11: ingestion is all-or-nothing. At every moment the table holds none of
\* the documents of the call or all of them; when the call raised (an
\* embedding batch failed after its retries, or a statement of the INSERT
\* scope failed) it holds none, also when earlier batches were embedded and
\* earlier rows inserted; ids are returned only when one document per text is
\* stored.
C11_IngestAllOrNothing ==
    /\ last.rows \subseteq table
    /\ Cardinality(StoredByCall) \in { 0, Len(texts) }
    /\ epc = "raised" => StoredByCall = {}
    /\ last.result = "ids" <=> epc = "stored"
    /\ epc = "stored" => Cardinality(StoredByCall) = Len(texts)

\* C11 witness: a call for more than one batch of texts raised in its INSERT
\* scope after rows had been inserted.
C11_Witness ==
    /\ epc = "raised" /\ last.failed /\ last.inserted
    /\ Len(texts) > BatchSize
    /\ StoredByCall = {}

(***************************************************************************)
(* similarity_search_with_score.  The query is fixed; a document is        *)
(* abstracted to dist, the cosine distance (embedding <=> query) of its    *)
(* embedding to the query, in whole units 0..2, so that its similarity is  *)
(* 1 - dist.                                                               *)
(***************************************************************************)
MaxSearchDocs == 4     \* documents in the table
MaxK == 3              \* largest k asked for

SearchUsers == { "google_ann", "linkedin_bob" }
SearchCollection == "personal_assistant"
Distances == 0..2

\* the documents stored: those of google_ann at every distance, those of
\* linkedin_bob nearest to the query
SearchDocs == ({ "google_ann" } \X Distances) \cup ({ "linkedin_bob" } \X { 0 })

SearchRow(id, u, dist) ==
    [ id |-> id, user_id |-> u, collection_name |-> SearchCollection, dist |-> dist ]

\* 1 - (embedding <=> %s::vector) AS similarity
Similarity(r) == 1 - r.dist

\* ORDER BY embedding <=> %s::vector ASC
\* (OrderedByDistance_Any: a query without its ORDER BY clause)
OrderedByDistance_Any(res) == TRUE
OrderedByDistance(res) ==
    \A i, j \in 1..Len(res) : i < j => res[i].dist <= res[j].dist

\* ... WHERE user_id = %s AND collection_name = %s ORDER BY ... LIMIT k: the
\* row lists the engine may return (rows at equal distance in any order)
TopK(tbl, u, c, k) ==
    LET S == InScope(tbl, u, c)
        m == Min(k, Cardinality(S))
    IN  { res \in [ 1..m -> S ] :
            /\ \A i, j \in 1..m : i # j => res[i] # res[j]
            /\ OrderedByDistance(res)
            /\ \A r \in S \ Range(res) : \A i \in 1..m : res[i].dist <= r.dist }

SearchObs(u, k) ==
    [ op |-> "search_with_score", user |-> u, coll |-> SearchCollection, k |-> k,
      result |-> "list", docs |-> << >>, failed |-> FALSE ]

\* a document of the tenant is stored (add_texts with one text)
SearchAddDoc ==
    /\ Cardinality(table) < MaxSearchDocs
    /\ \E ud \in SearchDocs :
          table' = table \cup { SearchRow(NewId(table), ud[1], ud[2]) }
    /\ UNCHANGED << table_exists, extension_checked, last >>
    /\ UNCHANGED << embedVars, concVars, auxVars >>

\* store.similarity_search_with_score(query, k): the list of (doc, score)
SimilaritySearchWithScore(u, k, f) ==
    /\ IF f = "embed"
       THEN last' = [ SearchObs(u, k) EXCEPT !.result = "raised", !.failed = TRUE ]
       ELSE IF ~DbOk(table_exists, f, "query")
       THEN last' = [ SearchObs(u, k) EXCEPT !.failed = TRUE ]
       ELSE \E res \in TopK(table, u, SearchCollection, k) :
              last' = [ SearchObs(u, k) EXCEPT
                          !.docs = [ i \in 1..Len(res) |->
                                       [ doc |-> res[i], score |-> Similarity(res[i]) ] ] ]
    /\ UNCHANGED << table, table_exists, extension_checked >>
    /\ UNCHANGED << embedVars, concVars, auxVars >>

SearchWithScore ==
    \E u \in SearchUsers, k \in 1..MaxK, f \in { "ok", "query", "embed" } :
        SimilaritySearchWithScore(u, k, f)

SearchInit ==
    /\ table = {}
    /\ table_exists = TRUE
    /\ extension_checked = TRUE
    /\ last = SearchObs(None, 0)

InitSearch == SearchInit /\ EmbedIdle /\ ConcIdle /\ AuxIdle
NextSearch ==
    \/ SearchAddDoc
    \/ SearchWithScore
SpecSearch == InitSearch /\ [][NextSearch]_vars

(***************************************************************************)
(* Claims about similarity search (checked under SpecSearch).              *)
(***************************************************************************)
\* C12: a similarity search returns at most k results, all of the caller's
\* tenant and collection, in order of non-increasing similarity score, each
\* score being 1 - cosine distance; no document left out is closer to the
\* query than a returned one.
C12_SearchTopK ==
    last.op = "search_with_score" /\ last.result = "list"
        => /\ Len(last.docs) <= last.k
           /\ \A i \in 1..Len(last.docs) :
                 /\ last.docs[i].doc \in InScope(table, last.user, last.coll)
                 /\ last.docs[i].score = 1 - last.docs[i].doc.dist
           /\ \A i, j \in 1..Len(last.docs) :
                 i < j => last.docs[i].score >= last.docs[j].score

\* C12 witness: k = 3 was asked of a tenant with four documents at several
\* distances, and three documents came back.
C12_Witness ==
    /\ last.op = "search_with_score" /\ last.k = 3 /\ Len(last.docs) = 3
    /\ Cardinality(InScope(table, last.user, last.coll)) > 3
    /\ last.docs[1].score > last.docs[3].score

(***************************************************************************)
(* Document sources: list_sources and delete_by_source.  A text is a       *)
(* sequence of tokens: "F" stands for the literal "Filename: ", "\n" for   *)
(* the newline, " " for a blank and "a", "b" for the characters of a file  *)
(* name (none of them a LIKE wildcard).  A source label is a sequence of   *)
(* name tokens.  A row is [id, user_id, collection_name, source, text],    *)
(* source being metadata->>'source' (NoLabel when absent).                 *)
(***************************************************************************)
SourceUsers == { "google_ann", "linkedin_bob" }
SourceCollection == "personal_assistant"
Labels == { << "a" >>, << "b" >> }
Whitespace == { " ", "\n" }

\* SQL NULL / Python None where a label is expected
NoLabel == << "NULL" >>

\* texts of documents stored without a source in their metadata
LegacyTexts ==
    { << "F", "a", "\n" >>,                  \* "Filename: a\n"
      << "F", "a", " ", "\n" >>,             \* "Filename: a \n"
      << "F", "b", "\n", "F", "a", "\n" >>,  \* two header lines
      << "F", "a" >>,                        \* header without a newline
      << "a" >> }                            \* no header

\* the kinds of document a tenant stores: (source, text)
SourceDocs ==
    ({ NoLabel } \X LegacyTexts) \cup { << l, << "a", "b" >> >> : l \in Labels }

SourceRow(id, u, src, text) ==
    [ id |-> id, user_id |-> u, collection_name |-> SourceCollection,
      source |-> src, text |-> text ]

\* str.strip(): without the leading and trailing whitespace
RECURSIVE LStrip(_)
LStrip(t) == IF t # << >> /\ Head(t) \in Whitespace THEN LStrip(Tail(t)) ELSE t
RECURSIVE RStrip(_)
RStrip(t) ==
    IF t # << >> /\ t[Len(t)] \in Whitespace THEN RStrip(SubSeq(t, 1, Len(t) - 1)) ELSE t
Strip(t) == RStrip(LStrip(t))

\* text LIKE '%Filename: %'
HasHeader(t) == \E i \in 1..Len(t) : t[i] = "F"

\* substring(text from 'Filename: (.*?)\n'): what follows the first
\* "Filename: " that has a newline after it, up to that newline; None (NULL)
\* when there is no match
HeaderStarts(t) ==
    { i \in 1..Len(t) : t[i] = "F" /\ \E j \in (i + 1)..Len(t) : t[j] = "\n" }
FirstOf(S) == CHOOSE i \in S : \A j \in S : i <= j
ExtractSource(t) ==
    IF HeaderStarts(t) = {} THEN NoLabel
    ELSE LET i == FirstOf(HeaderStarts(t))
             j == FirstOf({ n \in (i + 1)..Len(t) : t[n] = "\n" })
         IN  SubSeq(t, i + 1, j - 1)

\* the label list_sources reports for a row, None when it reports none:
\* the metadata source, else for a row with a header the stripped extract
\* (if source: source = source.strip())
ListedLabel(r) ==
    IF r.source # NoLabel THEN r.source
    ELSE IF ~HasHeader(r.text) THEN NoLabel
    ELSE IF ExtractSource(r.text) \in { NoLabel, << >> } THEN NoLabel
    ELSE Strip(ExtractSource(r.text))

\* list_sources(): {source: chunks}
ListSourcesOf(tbl, u) ==
    LET S == { r \in InScope(tbl, u, SourceCollection) : ListedLabel(r) # NoLabel }
    IN  { [ source |-> l, chunks |-> Cardinality({ r \in S : ListedLabel(r) = l }) ] :
            l \in { ListedLabel(r) : r \in S } }

\* text LIKE '%Filename: {source}\n%'
TextLikeHeader(t, src) ==
    \E i \in 1..Len(t) :
        /\ t[i] = "F"
        /\ i + Len(src) + 1 <= Len(t)
        /\ SubSeq(t, i + 1, i + Len(src)) = src
        /\ t[i + Len(src) + 1] = "\n"

\* the WHERE clause of delete_by_source
DeletedBySource(r, u, src) ==
    /\ r.user_id = u /\ r.collection_name = SourceCollection
    /\ \/ r.source = src
       \/ r.source = NoLabel /\ TextLikeHeader(r.text, src)

SourceObs(op, u, src) ==
    [ op |-> op, user |-> u, source |-> src, result |-> None,
      failed |-> FALSE, before |-> {} ]

\* a document is stored (add_texts with one text)
AddSourceDoc ==
    /\ NewId(table) <= MaxDocs
    /\ \E u \in SourceUsers, k \in SourceDocs :
          table' = table \cup { SourceRow(NewId(table), u, k[1], k[2]) }
    /\ last' = SourceObs("add_texts", None, NoLabel)
    /\ UNCHANGED << table_exists, extension_checked >>
    /\ UNCHANGED << embedVars, concVars, auxVars >>

\* store.delete_by_source(source): the number of deleted rows; the exception
\* of a failed statement is printed and raised again
DeleteBySourceCall(u, src, f) ==
    /\ IF ~DbOk(table_exists, f, "delete")
       THEN /\ table' = table
            /\ last' = [ SourceObs("delete_by_source", u, src) EXCEPT
                           !.result = "raised", !.failed = TRUE, !.before = table ]
       ELSE /\ table' = { r \in table : ~DeletedBySource(r, u, src) }
            /\ last' = [ SourceObs("delete_by_source", u, src) EXCEPT
                           !.result = Cardinality({ r \in table : DeletedBySource(r, u, src) }),
                           !.before = table ]
    /\ UNCHANGED << table_exists, extension_checked >>
    /\ UNCHANGED << embedVars, concVars, auxVars >>

DeleteBySource ==
    \E u \in SourceUsers, src \in Labels, f \in { "ok", "pool", "delete" } :
        DeleteBySourceCall(u, src, f)

\* store.list_sources(): [] when the query fails
ListSourcesCall(u, f) ==
    /\ last' = IF ~DbOk(table_exists, f, "query")
               THEN [ SourceObs("list_sources", u, NoLabel) EXCEPT
                        !.result = {}, !.failed = TRUE, !.before = table ]
               ELSE [ SourceObs("list_sources", u, NoLabel) EXCEPT
                        !.result = ListSourcesOf(table, u), !.before = table ]
    /\ UNCHANGED << table, table_exists, extension_checked >>
    /\ UNCHANGED << embedVars, concVars, auxVars >>

ListSources ==
    \E u \in SourceUsers, f \in { "ok", "pool", "query" } : ListSourcesCall(u, f)

SourcesInit ==
    /\ table = {}
    /\ table_exists = TRUE
    /\ extension_checked = TRUE
    /\ last = SourceObs(None, None, NoLabel)

InitSources == SourcesInit /\ EmbedIdle /\ ConcIdle /\ AuxIdle
NextSources ==
    \/ AddSourceDoc
    \/ DeleteBySource
    \/ ListSources
SpecSources == InitSources /\ [][NextSources]_vars

(***************************************************************************)
(* Claims about document sources (checked under SpecSources).              *)
(***************************************************************************)
\* C13 as stated: after delete_by_source(source) has completed, no document
\* of the tenant and collection carries that label, neither in its metadata
\* nor as the label list_sources extracts from its text; list_sources does
\* not report the source; the returned count is the number of documents
\* removed.
C13_SourceBulkDelete ==
    last.op = "delete_by_source" /\ ~last.failed
        => /\ \A r \in InScope(table, last.user, SourceCollection) :
                 ListedLabel(r) # last.source
           /\ \A e \in ListSourcesOf(table, last.user) : e.source # last.source
           /\ last.result = Cardinality(last.before \ table)
           /\ table \subseteq last.before

(***************************************************************************)
(* pg_connection: the process-wide pool and the get_connection scope, run  *)
(* by two threads, one statement of get_connection a step.  A pool is a    *)
(* number (its position in pools); pools[p].out counts the connections     *)
(* checked out of pool p.                                                  *)
(***************************************************************************)
MaxPools == 3      \* pools created in one run of the process

MinConn == 1       \* ThreadedConnectionPool(minconn=1, ...)
MaxConn == 10      \* ThreadedConnectionPool(..., maxconn=10, ...)

Threads == { "t1", "t2" }

ThreadLocals ==
    [ pool |-> NoPool, conn |-> FALSE, body |-> None, committed |-> FALSE,
      rolledback |-> FALSE, released |-> 0, result |-> None, exc |-> None ]

NewPool == [ minconn |-> MinConn, maxconn |-> MaxConn, out |-> 0, closed |-> FALSE ]

\* pool.putconn(conn): the connection is no longer checked out
\* (PutConnOut_Leak: a release that leaves the connection checked out)
PutConnOut_Leak(out) == out
PutConnOut(out) == out - 1

PoolInit ==
    /\ connection_pool = NoPool
    /\ pools = << >>
    /\ tpc = [ t \in Threads |-> "idle" ]
    /\ tst = [ t \in Threads |-> ThreadLocals ]

\* get_connection_pool(): if _connection_pool is None
PoolRead(t) ==
    /\ tpc[t] = "idle"
    /\ IF connection_pool = NoPool
       THEN tpc' = [ tpc EXCEPT ![t] = "creating" ] /\ tst' = tst
       ELSE /\ tpc' = [ tpc EXCEPT ![t] = "getconn" ]
            /\ tst' = [ tst EXCEPT ![t].pool = connection_pool ]
    /\ UNCHANGED << connection_pool, pools >>
    /\ UNCHANGED << storeVars, embedVars, concVars, pending, reduceVars >>

\* _connection_pool = pool.ThreadedConnectionPool(minconn=1, maxconn=10, ...);
\* return _connection_pool
PoolCreate(t) ==
    /\ tpc[t] = "creating"
    /\ Len(pools) < MaxPools
    /\ pools' = Append(pools, NewPool)
    /\ connection_pool' = Len(pools) + 1
    /\ tst' = [ tst EXCEPT ![t].pool = Len(pools) + 1 ]
    /\ tpc' = [ tpc EXCEPT ![t] = "getconn" ]
    /\ UNCHANGED << storeVars, embedVars, concVars, pending, reduceVars >>

\* the constructor of the pool raises: ConnectionError, before the try block
\* of get_connection
PoolCreateRaises(t) ==
    /\ tpc[t] = "creating"
    /\ tst' = [ tst EXCEPT ![t].result = "raised", ![t].exc = "pool" ]
    /\ tpc' = [ tpc EXCEPT ![t] = "done" ]
    /\ UNCHANGED << connection_pool, pools >>
    /\ UNCHANGED << storeVars, embedVars, concVars, pending, reduceVars >>

\* conn = pool.getconn()
GetConn(t) ==
    /\ tpc[t] = "getconn"
    /\ ~pools[tst[t].pool].closed
    /\ pools[tst[t].pool].out < pools[tst[t].pool].maxconn
    /\ pools' = [ pools EXCEPT ![tst[t].pool].out = @ + 1 ]
    /\ tst' = [ tst EXCEPT ![t].conn = TRUE ]
    /\ tpc' = [ tpc EXCEPT ![t] = "body" ]
    /\ UNCHANGED connection_pool
    /\ UNCHANGED << storeVars, embedVars, concVars, pending, reduceVars >>

\* pool.getconn() raises (pool closed or exhausted, server unreachable):
\* conn is None, so neither rollback nor putconn; the exception is raised
GetConnRaises(t) ==
    /\ tpc[t] = "getconn"
    /\ tst' = [ tst EXCEPT ![t].result = "raised", ![t].exc = "getconn" ]
    /\ tpc' = [ tpc EXCEPT ![t] = "done" ]
    /\ UNCHANGED << connection_pool, pools >>
    /\ UNCHANGED << storeVars, embedVars, concVars, pending, reduceVars >>

\* yield conn: the body of the with statement completes, or raises
Body(t) ==
    /\ tpc[t] = "body"
    /\ \E out \in { "ok", "raised" } :
          /\ tst' = [ tst EXCEPT ![t].body = out,
                                 ![t].exc = IF out = "raised" THEN "body" ELSE @ ]
          /\ tpc' = [ tpc EXCEPT ![t] = IF out = "ok" THEN "commit" ELSE "rollback" ]
    /\ UNCHANGED << connection_pool, pools >>
    /\ UNCHANGED << storeVars, embedVars, concVars, pending, reduceVars >>

\* conn.commit(), which may itself raise
CommitScope(t) ==
    /\ tpc[t] = "commit"
    /\ \/ /\ tst' = [ tst EXCEPT ![t].committed = TRUE, ![t].result = "ok" ]
          /\ tpc' = [ tpc EXCEPT ![t] = "release" ]
       \/ /\ tst' = [ tst EXCEPT ![t].exc = "commit" ]
          /\ tpc' = [ tpc EXCEPT ![t] = "rollback" ]
    /\ UNCHANGED << connection_pool, pools >>
    /\ UNCHANGED << storeVars, embedVars, concVars, pending, reduceVars >>

\* except Exception: if conn: conn.rollback(); raise
RollbackScope(t) ==
    /\ tpc[t] = "rollback"
    /\ tst' = [ tst EXCEPT ![t].rolledback = TRUE, ![t].result = "raised" ]
    /\ tpc' = [ tpc EXCEPT ![t] = "release" ]
    /\ UNCHANGED << connection_pool, pools >>
    /\ UNCHANGED << storeVars, embedVars, concVars, pending, reduceVars >>

\* finally: if conn: pool.putconn(conn)
PutConn(t) ==
    /\ tpc[t] = "release"
    /\ pools' = [ pools EXCEPT ![tst[t].pool].out = PutConnOut(@) ]
    /\ tst' = [ tst EXCEPT ![t].released = @ + 1 ]
    /\ tpc' = [ tpc EXCEPT ![t] = "done" ]
    /\ UNCHANGED connection_pool
    /\ UNCHANGED << storeVars, embedVars, concVars, pending, reduceVars >>

\* the scope has exited; the thread goes on to its next scope
ScopeExit(t) ==
    /\ tpc[t] = "done"
    /\ tst' = [ tst EXCEPT ![t] = ThreadLocals ]
    /\ tpc' = [ tpc EXCEPT ![t] = "idle" ]
    /\ UNCHANGED << connection_pool, pools >>
    /\ UNCHANGED << storeVars, embedVars, concVars, pending, reduceVars >>

\* close_connection_pool(), at shutdown: no thread is inside get_connection
ClosePool ==
    /\ \A t \in Threads : tpc[t] \in { "idle", "done" }
    /\ connection_pool # NoPool
    /\ pools' = [ pools EXCEPT ![connection_pool].closed = TRUE ]
    /\ connection_pool' = NoPool
    /\ UNCHANGED << tpc, tst >>
    /\ UNCHANGED << storeVars, embedVars, concVars, pending, reduceVars >>

ThreadReadsPool == \E t \in Threads : PoolRead(t)
ThreadCreatesPool == \E t \in Threads : PoolCreate(t)
ThreadFailsToCreatePool == \E t \in Threads : PoolCreateRaises(t)
ThreadGetsConn == \E t \in Threads : GetConn(t)
ThreadFailsToGetConn == \E t \in Threads : GetConnRaises(t)
ThreadRunsBody == \E t \in Threads : Body(t)
ThreadCommits == \E t \in Threads : CommitScope(t)
ThreadRollsBack == \E t \in Threads : RollbackScope(t)
ThreadPutsConn == \E t \in Threads : PutConn(t)
ThreadExitsScope == \E t \in Threads : ScopeExit(t)

InitPool == PoolInit /\ StoreIdle /\ EmbedIdle /\ ConcIdle /\ pending = << >> /\ ReduceIdle
NextPool ==
    \/ ThreadReadsPool
    \/ ThreadCreatesPool
    \/ ThreadFailsToCreatePool
    \/ ThreadGetsConn
    \/ ThreadFailsToGetConn
    \/ ThreadRunsBody
    \/ ThreadCommits
    \/ ThreadRollsBack
    \/ ThreadPutsConn
    \/ ThreadExitsScope
    \/ ClosePool
SpecPool == InitPool /\ [][NextPool]_vars

(***************************************************************************)
(* Claims about the connection pool (checked under SpecPool).              *)
(***************************************************************************)
Holding(p) == { t \in Threads : tst[t].pool = p /\ tpc[t] \in { "body", "commit", "rollback", "release" } }
OpenPools == { p \in 1..Len(pools) : ~pools[p].closed }

\* C15: every get_connection scope returns the connection it acquired to its
\* pool exactly once, on every exit path; it commits and does not roll back
\* when the body completed and the commit succeeded, rolls back and does not
\* commit when the body raised, and then raises the body's exception; a pool
\* has exactly the connections checked out that running scopes hold, so after
\* all scopes have exited none is checked out.
C15_ScopedConnection ==
    /\ \A p \in 1..Len(pools) : pools[p].out = Cardinality(Holding(p))
    /\ \A t \in Threads : tpc[t] = "done" =>
          /\ tst[t].released = IF tst[t].conn THEN 1 ELSE 0
          /\ tst[t].body = "ok" /\ tst[t].exc = None
                => tst[t].committed /\ ~tst[t].rolledback /\ tst[t].result = "ok"
          /\ tst[t].body = "raised"
                => /\ tst[t].rolledback /\ ~tst[t].committed
                   /\ tst[t].result = "raised" /\ tst[t].exc = "body"
          /\ tst[t].exc # None => tst[t].result = "raised" /\ ~tst[t].committed
    /\ (\A t \in Threads : tpc[t] \in { "idle", "done" })
          => \A p \in 1..Len(pools) : pools[p].out = 0

\* C15 witness: a scope whose body raised has rolled back and returned its
\* connection while the other thread still holds one.
C15_Witness ==
    \E t \in Threads :
        /\ tpc[t] = "done" /\ tst[t].body = "raised"
        /\ tst[t].rolledback /\ tst[t].released = 1
        /\ \E o \in Threads \ { t } : tpc[o] = "body"

\* C20 as stated: the pool is created lazily with bounds min 1 / max 10, every
\* acquire uses the pool the module holds, and at most one pool exists that
\* has not been torn down, also when the first callers run concurrently.
C20_SinglePool ==
    /\ \A p \in 1..Len(pools) : pools[p].minconn = 1 /\ pools[p].maxconn = 10
    /\ connection_pool # NoPool => ~pools[connection_pool].closed
    /\ Cardinality(OpenPools) <= 1
    /\ \A t \in Threads : tpc[t] = "getconn" /\ connection_pool # NoPool
          => tst[t].pool = connection_pool

(***************************************************************************)
(* Dimensionality reduction of one (tenant, collection): the persisted     *)
(* model file and the in-memory model of each store instance.  A fitted    *)
(* model is a number (1 is the first fit); pca_model[s] is the state of    *)
(* the s-th store instance created, in creation order.                     *)
(***************************************************************************)
MaxStores == 3     \* store instances created for the (tenant, collection)
MaxFits == 2       \* models fitted

MaxDimensions == 2000      \* self.max_dimensions

\* output_dimensionality of a store: the default, and one above max_dimensions
EmbeddingDims == { 1536, 3072 }

\* n_samples of one add_texts call: a few texts, or enough to fit a model
SampleCounts == { 1, MaxDimensions }

Truncation == 0    \* emb[:self.max_dimensions]: no model is used

Max(a, b) == IF a > b THEN a ELSE b

RECURSIVE MaxModel(_)
MaxModel(stores) ==
    IF stores = << >> THEN NoModel
    ELSE Max(stores[1].model, MaxModel(Tail(stores)))

\* the model fitted next
NextModel == Max(pca_file, MaxModel(pca_model)) + 1

\* _initialize_pca_reduction: load the persisted model when the file exists
InitializePcaReduction(file) == IF file # NoModel THEN file ELSE NoModel

\* __init__ and _ensure_table_exists: self.pca_model = None; the persisted
\* model is loaded only on the branch that creates the table
ModelAfterInit(tableExists, dim, file) ==
    IF ~tableExists /\ dim > MaxDimensions
    THEN InitializePcaReduction(file)
    ELSE NoModel

\* samples, held and width are set for add_texts: the number of vectors of the
\* batch, the model the store instance held when the call began, and the width
\* of the vectors returned
ReduceObs(op, s, reduced, used, file) ==
    [ op |-> op, store |-> s, reduced |-> reduced, used |-> used, file_before |-> file,
      samples |-> 0, held |-> NoModel, width |-> 0 ]

\* the width of the vectors _reduce_dimensions returns: the input unchanged,
\* emb[:max_dimensions], or PCA(n_components=max_dimensions)
ReducedWidth(dim) == Min(dim, MaxDimensions)

ReduceInit ==
    /\ pca_file = NoModel
    /\ pca_model = << >>
    /\ table = {}
    /\ table_exists \in BOOLEAN
    /\ extension_checked = FALSE
    /\ last = ReduceObs("init", 0, FALSE, Truncation, NoModel)

\* PgVectorStore(...): a new store instance (also: the process restarted)
ReduceConstruct ==
    /\ Len(pca_model) < MaxStores
    /\ \E dim \in EmbeddingDims :
          pca_model' = Append(pca_model,
                              [ dim |-> dim,
                                model |-> ModelAfterInit(table_exists, dim, pca_file) ])
    /\ table_exists' = TRUE
    /\ last' = ReduceObs("construct", Len(pca_model) + 1, FALSE, Truncation, pca_file)
    /\ UNCHANGED << table, extension_checked, pca_file >>
    /\ UNCHANGED << embedVars, concVars, pending, poolVars >>

\* add_texts -> _reduce_dimensions(embeddings, fit_pca=True), pickle.dump
\* succeeding or raising
ReduceDimensions(s) ==
    /\ s \in 1..Len(pca_model)
    /\ \E n \in SampleCounts, saved \in BOOLEAN :
        LET st == pca_model[s]
            obs(reduced, used) ==
                [ ReduceObs("add_texts", s, reduced, used, pca_file) EXCEPT
                    !.samples = n, !.held = st.model, !.width = ReducedWidth(st.dim) ]
        IN
        IF st.dim <= MaxDimensions
        THEN /\ saved
             /\ last' = obs(FALSE, Truncation)
             /\ UNCHANGED << pca_file, pca_model >>
        ELSE IF st.model = NoModel
        THEN IF n < MaxDimensions
             THEN /\ saved
                  /\ last' = obs(TRUE, Truncation)
                  /\ UNCHANGED << pca_file, pca_model >>
             ELSE /\ NextModel <= MaxFits
                  /\ pca_model' = [ pca_model EXCEPT ![s].model = NextModel ]
                  /\ pca_file' = IF saved THEN NextModel ELSE pca_file
                  /\ last' = obs(TRUE, NextModel)
        ELSE /\ saved
             /\ last' = obs(TRUE, st.model)
             /\ UNCHANGED << pca_file, pca_model >>
    /\ UNCHANGED << table, table_exists, extension_checked >>
    /\ UNCHANGED << embedVars, concVars, pending, poolVars >>

\* similarity_search -> _reduce_query_embedding
ReduceQueryEmbedding(s) ==
    /\ s \in 1..Len(pca_model)
    /\ LET st == pca_model[s] IN
       last' = IF st.dim <= MaxDimensions
               THEN ReduceObs("query", s, FALSE, Truncation, pca_file)
               ELSE ReduceObs("query", s, TRUE, st.model, pca_file)
    /\ UNCHANGED << pca_file, pca_model >>
    /\ UNCHANGED << table, table_exists, extension_checked >>
    /\ UNCHANGED << embedVars, concVars, pending, poolVars >>

ReduceAddTexts == \E s \in 1..MaxStores : ReduceDimensions(s)
ReduceQuery == \E s \in 1..MaxStores : ReduceQueryEmbedding(s)

InitReduce == ReduceInit /\ EmbedIdle /\ ConcIdle /\ pending = << >> /\ PoolIdle
NextReduce ==
    \/ ReduceConstruct
    \/ ReduceAddTexts
    \/ ReduceQuery
SpecReduce == InitReduce /\ [][NextReduce]_vars

(***************************************************************************)
(* Claim about the reduction model (checked under SpecReduce).             *)
(***************************************************************************)
\* C16 as stated: once a model is persisted, every later reduction, for
\* ingestion and for queries, in any store instance, uses that model, and the
\* persisted model is still that model afterwards.
C16_ReductionModelReuse ==
    last.file_before # NoModel /\ last.reduced
        => last.used = last.file_before /\ pca_file = last.file_before

\* C23 as stated: reduce with fitting allowed on vectors wider than the target
\* width applies the model when one exists (persisted, or held by the store);
\* when none exists it fits and persists a model exactly when the batch has at
\* least target-width vectors, and otherwise truncates and leaves the model
\* absent; every output vector has the target width.
C23_ReduceFitIfAbsent ==
    last.op = "add_texts" /\ last.reduced =>
        /\ last.width = MaxDimensions
        /\ IF last.file_before # NoModel
           THEN last.used = last.file_before /\ pca_file = last.file_before
           ELSE IF last.held # NoModel
           THEN last.used = last.held /\ pca_file = NoModel
           ELSE IF last.samples >= MaxDimensions
           THEN last.used # Truncation /\ pca_file = last.used
           ELSE last.used = Truncation /\ pca_file = NoModel

(***************************************************************************)
(* list_records with filters, sort field and limit.  A JSON value of a     *)
(* record's data is a pair << type, text >>; the WHERE clause compares the *)
(* text the ->> operator extracts with str(value) of the filter value.     *)
(* Every data carries the record id, so "if record:" drops nothing.        *)
(***************************************************************************)
MaxListDocs == 2   \* documents stored
MaxLimit == 2      \* limit of a list_records call

ListUsers == { "google_ann", "linkedin_bob" }
ListCollection == "resumes"
ListRecordType == "resume"

Absent == << "absent", "" >>           \* the key is not in data
JsonNull == << "null", "" >>           \* None

\* values of data['is_master'] and of the filter on it
FlagValues == { << "bool", "true" >>, << "str", "true" >> }

\* values of data['date'], in the order of the column's text collation
Collation == << "2024-01", "2024-02" >>
DateValues == { << "str", Collation[k] >> : k \in 1..Len(Collation) }

\* metadata->'data'->>key: the text of a JSON value (NULL for null or absent)
JsonText(v) ==
    IF v[1] \in { "absent", "null" } THEN None ELSE v[2]

\* str(value) of a Python filter value
PyStr(v) ==
    IF v = << "bool", "true" >> THEN "True"
    ELSE IF v = << "bool", "false" >> THEN "False"
    ELSE v[2]

DataKeys == { "id", "is_master", "date" }

DataText(data, key) == IF key \in DataKeys THEN JsonText(data[key]) ELSE None

ListData(id, flag, date) ==
    [ id |-> << "str", ToString(id) >>, is_master |-> flag, date |-> date ]

\* the documents stored: << tenant, data['is_master'], data['date'] >>
ListDocs ==
    { << "google_ann", << "bool", "true" >>, << "str", Collation[1] >> >>,
      << "google_ann", << "str", "true" >>, << "str", Collation[2] >> >>,
      << "google_ann", Absent, Absent >>,
      << "linkedin_bob", << "bool", "true" >>, << "str", Collation[2] >> >> }

ListRow(id, u, flag, date) ==
    [ id |-> id, user_id |-> u, collection_name |-> ListCollection,
      record_type |-> ListRecordType, data |-> ListData(id, flag, date) ]

\* filters: none, or one filter on is_master whose value may be None
NoFilters == << >>
ListFilters ==
    { NoFilters } \cup { << << "is_master", v >> >> : v \in FlagValues \cup { JsonNull } }

\* conditions of the WHERE clause: tenant, collection, record type and one
\* "metadata->'data'->>key = str(value)" for each filter value that is not None
ListWhere(r, u, rt, filters) ==
    /\ r.user_id = u /\ r.collection_name = ListCollection
    /\ r.record_type = rt
    /\ \A k \in 1..Len(filters) :
          filters[k][2] # JsonNull
             => SqlEq(DataText(r.data, filters[k][1]), PyStr(filters[k][2])) = "T"

\* sort_field_map: the names that have an entry
SupportedSortFields == { "applied_date", "created_at", "updated_at", "company", "status" }
SortColumns == { "created_at", "updated_at" }

RankOfText(t) ==
    IF t = None THEN Len(Collation) + 1      \* NULL sorts as the largest value
    ELSE CHOOSE k \in 1..Len(Collation) : Collation[k] = t

\* the value ORDER BY compares: the created_at / updated_at column (the id of
\* the row in the model), or for every other name the text of data[sort_by]
SortKey(r, sort_by) ==
    IF sort_by = None \/ sort_by \in SortColumns
    THEN r.id
    ELSE RankOfText(DataText(r.data, sort_by))

\* order_by = "created_at DESC" unless sort_by is given; then DESC if reverse
\* (Descending_Always: an ORDER BY that ignores reverse)
Descending_Always(sort_by, reverse) == TRUE
Descending(sort_by, reverse) == sort_by = None \/ reverse

ListOrdered(res, sort_by, reverse) ==
    \A i, j \in 1..Len(res) : i < j =>
        IF Descending(sort_by, reverse)
        THEN SortKey(res[i], sort_by) >= SortKey(res[j], sort_by)
        ELSE SortKey(res[i], sort_by) <= SortKey(res[j], sort_by)

\* SELECT metadata ... WHERE ... ORDER BY ... LIMIT: the row lists the engine
\* may return (rows with equal sort keys in any order)
ListSelect(tbl, u, rt, filters, sort_by, reverse, limit) ==
    LET S == { r \in tbl : ListWhere(r, u, rt, filters) }
        m == Min(limit, Cardinality(S))
    IN  { res \in [ 1..m -> S ] :
            /\ \A i, j \in 1..m : i # j => res[i] # res[j]
            /\ \E all \in [ 1..Cardinality(S) -> S ] :
                  /\ \A i, j \in 1..Cardinality(S) : i # j => all[i] # all[j]
                  /\ ListOrdered(all, sort_by, reverse)
                  /\ \A i \in 1..m : res[i] = all[i] }

\* what the caller passed and got back; stored: the rows of the table when the
\* call ran
ListObs(u, filters, sort_by, reverse, limit) ==
    [ op |-> "list_records", user |-> u, filters |-> filters, sort_by |-> sort_by,
      reverse |-> reverse, limit |-> limit, records |-> << >>, failed |-> FALSE,
      stored |-> table ]

SortInputs == { None, "created_at", "date" }

\* a record is stored (created_at is the time of the INSERT)
ListAddDoc ==
    /\ Cardinality(table) < MaxListDocs
    /\ \E d \in ListDocs :
          table' = table \cup { ListRow(NewId(table), d[1], d[2], d[3]) }
    /\ UNCHANGED << table_exists, extension_checked, last >>
    /\ UNCHANGED << embedVars, concVars, auxVars >>

\* store.list_records(record_type, filters, sort_by, reverse, limit)
ListRecordsCall(u, filters, sort_by, reverse, limit, f) ==
    /\ IF ~DbOk(table_exists, f, "query")
       THEN last' = [ ListObs(u, filters, sort_by, reverse, limit) EXCEPT !.failed = TRUE ]
       ELSE \E res \in ListSelect(table, u, ListRecordType, filters, sort_by, reverse, limit) :
              last' = [ ListObs(u, filters, sort_by, reverse, limit) EXCEPT
                          !.records = [ i \in 1..Len(res) |-> res[i].data ] ]
    /\ UNCHANGED << table, table_exists, extension_checked >>
    /\ UNCHANGED << embedVars, concVars, auxVars >>

\* the call observed: one per run, from any stored state (a listing changes
\* nothing in the table, so a second listing reaches no new case)
ListWithFilters ==
    /\ last.user = None
    /\ \E u \in ListUsers, filters \in ListFilters, sort_by \in SortInputs,
          reverse \in BOOLEAN, limit \in 1..MaxLimit, f \in { "ok", "query" } :
            ListRecordsCall(u, filters, sort_by, reverse, limit, f)

ListInit ==
    /\ table = {}
    /\ table_exists = TRUE
    /\ extension_checked = TRUE
    /\ last = ListObs(None, NoFilters, None, TRUE, 1)

InitList == ListInit /\ EmbedIdle /\ ConcIdle /\ AuxIdle
NextList ==
    \/ ListAddDoc
    \/ ListWithFilters
SpecList == InitList /\ [][NextList]_vars

(***************************************************************************)
(* Claims about list_records (checked under SpecList).                     *)
(***************************************************************************)
\* the data of the documents of the caller's tenant, collection and record
\* type whose data field equals every filter value that is not None
ExactMatches ==
    { r.data : r \in
        { r \in last.stored :
            /\ r.user_id = last.user /\ r.collection_name = ListCollection
            /\ r.record_type = ListRecordType
            /\ \A k \in 1..Len(last.filters) :
                  last.filters[k][2] # JsonNull
                     => r.data[last.filters[k][1]] = last.filters[k][2] } }

\* the data of the caller's documents, latest insertion first
RECURSIVE NewestFirst(_)
NewestFirst(S) ==
    IF S = {} THEN << >>
    ELSE LET r == CHOOSE x \in S : \A y \in S : y.id <= x.id
         IN  << r.data >> \o NewestFirst(S \ { r })

Prefix(seq, n) == SubSeq(seq, 1, Min(n, Len(seq)))

\* C17 as stated, for the calls whose query did not fail: list_records returns
\* only data of documents of the caller's tenant, collection and record type
\* whose data field equals every non-null filter value exactly, at most limit
\* of them, and all of them when fewer than limit match.
C17_ListFilters ==
    last.op = "list_records" /\ last.user # None /\ ~last.failed =>
        /\ Range(last.records) \subseteq ExactMatches
        /\ Len(last.records) <= last.limit
        /\ Cardinality(ExactMatches) < last.limit => Range(last.records) = ExactMatches

\* C18: list_records never raises; when sort_by is absent the records come in
\* the default order, insertion time descending; when sort_by is a name without
\* an entry in the sort field map, they come ordered by the text of that field
\* of data, descending when reverse is set and ascending otherwise, a record
\* without the field counting as the largest.
C18_SortOrder ==
    last.op = "list_records" /\ last.user # None /\ ~last.failed =>
        /\ last.sort_by = None /\ last.filters = NoFilters
              => last.records =
                    Prefix(NewestFirst({ r \in last.stored : r.user_id = last.user }), last.limit)
        /\ last.sort_by # None /\ last.sort_by \notin SupportedSortFields
              => \A i, j \in 1..Len(last.records) : i < j =>
                    LET ki == RankOfText(DataText(last.records[i], last.sort_by))
                        kj == RankOfText(DataText(last.records[j], last.sort_by))
                    IN  IF last.reverse THEN ki >= kj ELSE ki <= kj

\* C18 witness: a list sorted by a field without a map entry, ascending,
\* returned two records in an order that is not insertion time descending.
C18_Witness ==
    /\ last.op = "list_records" /\ ~last.failed
    /\ last.sort_by = "date" /\ ~last.reverse /\ last.filters = NoFilters
    /\ Len(last.records) = 2
    /\ DataText(last.records[1], "date") # DataText(last.records[2], "date")
    /\ last.records # NewestFirst({ r \in last.stored : r.user_id = last.user })

\* C18 as stated, for the calls whose query did not fail: when sort_by is
\* absent or not a supported sort field, the records come in the default
\* order, insertion time descending.
C18_DefaultOrder ==
    /\ last.op = "list_records" /\ last.user # None /\ ~last.failed
    /\ last.filters = NoFilters
    /\ last.sort_by \notin SupportedSortFields
    => last.records =
          Prefix(NewestFirst({ r \in last.stored : r.user_id = last.user }), last.limit)

(***************************************************************************)
(* JobSearchDB with the status and the timeline of an application: the     *)
(* data of an application is its status and the length of its timeline.    *)
(* Application(...) validates the status in __post_init__; the writes are  *)
(* those of SpecJobs (JobSync).                                            *)
(***************************************************************************)
MaxEvents == 3     \* timeline events of one application

ValidStatuses ==
    { "tracking", "applied", "screening", "interview", "offer", "accepted",
      "rejected", "withdrawn" }

\* statuses a caller passes to update_status / update_application
StatusInputs == { "applied", "Interview", "rejected", "on-hold" }

\* str.lower()
Lower(st) == IF st = "Interview" THEN "interview" ELSE st

\* Application.__post_init__: ValueError unless status.lower() is valid
PostInitRaises(st) == Lower(st) \notin ValidStatuses

\* Application(...) / Application.from_dict(data): the status is normalised,
\* the timeline gets its initial event when it is empty
AppData(st, events) ==
    [ status |-> Lower(st), events |-> IF events = 0 THEN 1 ELSE events ]

\* Application.update_status(new_status): no validation, one event appended
UpdateStatusData(app, new_status) ==
    [ status |-> Lower(new_status), events |-> app.events + 1 ]

\* update_application: setattr(app, 'status', value)
SetStatusData(app, st) == [ app EXCEPT !.status = st ]

\* the duplicate check of add_application on the applications read
AppDuplicateActive(tbl, te, f) ==
    \E r \in ExistingApps(tbl, te, f) : r.data.status \notin TerminalStatuses

\* Application.from_dict(app_dict) raised ValueError in the caller
AppRaises(op, rid, f) ==
    /\ last' = [ JobObs(op, rid, None, f) EXCEPT
                   !.result = "raised",
                   !.before = StoredPayloads(table, JobUser, "applications",
                                             "application", rid) ]
    /\ UNCHANGED << table, table_exists, extension_checked >>

\* JobSearchDB.add_application(Application(status=st, ...))
AppAddCall(rid, st, f) ==
    /\ ~PostInitRaises(st)
    /\ IF AppDuplicateActive(table, table_exists, f)
       THEN AppRaises("add_application", rid, f)
       ELSE JobSync("add_application", rid, AppData(st, 0), f, "id")
    /\ UNCHANGED << embedVars, concVars, auxVars >>

\* JobSearchDB.update_status(app_id, new_status)
AppUpdateStatusCall(rid, new_status, f) ==
    /\ IF JobFound(rid, f) = {}
       THEN JobNotFound("update_status", rid, f)
       ELSE \E r \in JobFound(rid, f) :
              IF PostInitRaises(r.data.status)
              THEN AppRaises("update_status", rid, f)
              ELSE /\ r.data.events < MaxEvents
                   /\ JobSync("update_status", rid,
                              UpdateStatusData(AppData(r.data.status, r.data.events),
                                               new_status), f, "true")
    /\ UNCHANGED << embedVars, concVars, auxVars >>

\* JobSearchDB.update_application(app_id, {'status': st})
AppUpdateApplicationCall(rid, st, f) ==
    /\ IF JobFound(rid, f) = {}
       THEN JobNotFound("update_application", rid, f)
       ELSE \E r \in JobFound(rid, f) :
              IF PostInitRaises(r.data.status)
              THEN AppRaises("update_application", rid, f)
              ELSE JobSync("update_application", rid,
                           SetStatusData(AppData(r.data.status, r.data.events), st),
                           f, "true")
    /\ UNCHANGED << embedVars, concVars, auxVars >>

\* JobSearchDB.get_application(app_id)
AppGetCall(rid, f) ==
    /\ IF JobFound(rid, f) = {}
       THEN JobNotFound("get_application", rid, f)
       ELSE \E r \in JobFound(rid, f) :
              IF PostInitRaises(r.data.status)
              THEN AppRaises("get_application", rid, f)
              ELSE /\ last' = [ JobObs("get_application", rid,
                                       AppData(r.data.status, r.data.events), f) EXCEPT
                                  !.result = "application",
                                  !.before = StoredPayloads(table, JobUser, "applications",
                                                            "application", rid) ]
                   /\ UNCHANGED << table, table_exists, extension_checked >>
    /\ UNCHANGED << embedVars, concVars, auxVars >>

AppAdd ==
    \E rid \in JobIds, st \in StatusInputs, f \in JobFaults : AppAddCall(rid, st, f)
AppUpdateStatus ==
    \E rid \in JobIds, st \in StatusInputs, f \in JobFaults : AppUpdateStatusCall(rid, st, f)
AppUpdateApplication ==
    \E rid \in JobIds, st \in StatusInputs, f \in JobFaults :
        AppUpdateApplicationCall(rid, st, f)
AppGet ==
    \E rid \in JobIds, f \in { "ok", "query" } : AppGetCall(rid, f)

InitApps == JobsInit /\ EmbedIdle /\ ConcIdle /\ AuxIdle
NextApps ==
    \/ AppAdd
    \/ AppUpdateStatus
    \/ AppUpdateApplication
    \/ AppGet
SpecApps == InitApps /\ [][NextApps]_vars

(***************************************************************************)
(* Claims about the status and the timeline (checked under SpecApps).      *)
(***************************************************************************)
AppStored(rid) == StoredPayloads(table, JobUser, "applications", "application", rid)

\* C22 as stated: update_status on an existing application returns True, and
\* the application is then stored with the new status and one more timeline
\* event than before; on an unknown id it returns False and stores nothing.
C22_StatusTimeline ==
    last.op = "update_status" =>
        IF last.before # {}
        THEN /\ last.result = "true"
             /\ AppStored(last.rid) = { last.data }
             /\ \A b \in last.before : last.data.events = b.events + 1
        ELSE last.result = "false" /\ AppStored(last.rid) = {}

\* C29 as stated: every stored application has one of the eight valid
\* statuses, and a stored application that is read comes back.
C29_ValidStatus ==
    /\ \A r \in table : r.record_type = "application" => r.data.status \in ValidStatuses
    /\ last.op = "get_application" /\ last.before # {} /\ ~last.failed
          => last.result = "application"

(***************************************************************************)
(* The schema bootstrap: _ensure_table_exists probes the provider for the  *)
(* embedding width and creates the table and its vector index.  last       *)
(* records the table the call created.                                     *)
(***************************************************************************)
HnswMaxWidth == 1000       \* elif dimension > 1000
IndexMaxWidth == 2000      \* if dimension > 2000
DefaultWidth == 768        \* embedding_dim = 768

ProbeFailed == 0           \* embed_query("test") raised

\* widths a provider reports, around the two thresholds
ProbeWidths ==
    { 768, 1536, 3072 } \cup (HnswMaxWidth - 8 .. HnswMaxWidth + 8)
                        \cup (IndexMaxWidth - 8 .. IndexMaxWidth + 8)

\* _ensure_table_exists: the dimension the table is created with
\* (TargetWidth_Raw: the probed width is used as it is)
TargetWidth_Raw(probe) ==
    IF probe = ProbeFailed THEN DefaultWidth ELSE probe
TargetWidth(probe) ==
    IF probe = ProbeFailed THEN DefaultWidth
    ELSE IF probe > MaxDimensions THEN MaxDimensions
    ELSE probe

\* _create_table_with_dimension: the vector index created with the table
\* (IndexFor_Exclusive: HNSW only below the threshold)
IndexFor_Exclusive(dimension) ==
    IF dimension > IndexMaxWidth THEN "none"
    ELSE IF dimension >= HnswMaxWidth THEN "ivfflat"
    ELSE "hnsw"
IndexFor(dimension) ==
    IF dimension > IndexMaxWidth THEN "none"
    ELSE IF dimension > HnswMaxWidth THEN "ivfflat"
    ELSE "hnsw"

SchemaObs(op, probe) ==
    [ op |-> op, probe |-> probe, created |-> FALSE, width |-> 0, index |-> "none" ]

\* PgVectorStore._ensure_table_exists(), the statements of its transaction
\* succeeding or one of them raising (printed as a warning)
EnsureTableExists(probe, f) ==
    /\ IF table_exists \/ DbFails(f, "table")
       THEN /\ last' = SchemaObs("ensure_table", probe)
            /\ UNCHANGED table_exists
       ELSE /\ last' = [ SchemaObs("ensure_table", probe) EXCEPT
                           !.created = TRUE,
                           !.width = TargetWidth(probe),
                           !.index = IndexFor(TargetWidth(probe)) ]
            /\ table_exists' = TRUE
    /\ UNCHANGED << table, extension_checked >>
    /\ UNCHANGED << embedVars, concVars, auxVars >>

\* PgVectorStore._create_table_with_dimension(cursor, dimension), committed
\* by its caller
CreateTableWithDimension(dimension) ==
    /\ ~table_exists
    /\ last' = [ SchemaObs("create_table", dimension) EXCEPT
                   !.created = TRUE, !.width = dimension, !.index = IndexFor(dimension) ]
    /\ table_exists' = TRUE
    /\ UNCHANGED << table, extension_checked >>
    /\ UNCHANGED << embedVars, concVars, auxVars >>

EnsureSchema ==
    \E probe \in ProbeWidths \cup { ProbeFailed }, f \in { "ok", "pool", "table" } :
        EnsureTableExists(probe, f)
CreateSchema == \E dimension \in ProbeWidths : CreateTableWithDimension(dimension)

SchemaInit ==
    /\ table = {}
    /\ table_exists = FALSE
    /\ extension_checked = TRUE
    /\ last = SchemaObs(None, ProbeFailed)

InitSchema == SchemaInit /\ EmbedIdle /\ ConcIdle /\ AuxIdle
NextSchema ==
    \/ EnsureSchema
    \/ CreateSchema
SpecSchema == InitSchema /\ [][NextSchema]_vars

(***************************************************************************)
(* Claims about the schema bootstrap (checked under SpecSchema).           *)
(***************************************************************************)
\* C24: a table created with target width d gets an HNSW index if and only
\* if d <= 1000, an IVFFlat index if and only if 1000 < d <= 2000, and no
\* vector index if and only if d > 2000.
C24_IndexByWidth ==
    last.created =>
        /\ last.index \in { "hnsw", "ivfflat", "none" }
        /\ last.index = "hnsw" <=> last.width <= 1000
        /\ last.index = "ivfflat" <=> (1000 < last.width /\ last.width <= 2000)
        /\ last.index = "none" <=> last.width > 2000

\* C24 witness: tables were created at both sides of a threshold, here the
\* widest one that still gets an IVFFlat index.
C24_Witness ==
    last.created /\ last.width = 2000 /\ last.index = "ivfflat"

\* C25: the table that store bootstrap creates has the width the probe
\* reported when that is at most 2000, and 2000 otherwise; it is never wider
\* than 2000 and always has a vector index.
C25_BootstrapWidth ==
    last.op = "ensure_table" /\ last.created =>
        /\ last.probe # ProbeFailed /\ last.probe <= 2000 => last.width = last.probe
        /\ last.probe > 2000 => last.width = 2000
        /\ last.width <= 2000
        /\ last.index # "none"

\* C25 witness: the probe reported a width above the ceiling and the table
\* was created with the ceiling.
C25_Witness ==
    /\ last.op = "ensure_table" /\ last.created
    /\ last.probe = 3072 /\ last.width = 2000 /\ last.index = "ivfflat"


(***************************************************************************)
(* Resumes and resume versions (storage/vector_sync.py, storage/           *)
(* resume_db.py).  Both record types live in the collection "resumes"; a   *)
(* resume document carries metadata resume_id = its id, a version document *)
(* carries version_id = its id and resume_id = the id of its resume.       *)
(***************************************************************************)
MaxResumeDocs == 3   \* rows the collection "resumes" holds at a time

ResumeUser == "google_ann"
ResumeCollection == "resumes"
ResumeIds == { "res_1", "res_2" }
VersionIds == { "ver_1", "ver_2" }
ResumeFaults == { "ok", "pool", "query", "delete", "embed", "insert" }

\* metadata = {...} of sync_resume_to_vector_store
ResumeMeta(rid, d) ==
    [ record_type |-> "resume", record_id |-> rid, data |-> d,
      source |-> "resume", resume_id |-> rid, version_id |-> None ]

\* metadata = {...} of sync_resume_version_to_vector_store
VersionMeta(vid, rid, d) ==
    [ record_type |-> "resume_version", record_id |-> vid, data |-> d,
      source |-> "resume_version", resume_id |-> rid, version_id |-> vid ]

ResumeRow(id, u, meta) ==
    [ id |-> id, user_id |-> u, collection_name |-> ResumeCollection,
      record_type |-> meta.record_type, record_id |-> meta.record_id,
      data |-> meta.data, source |-> meta.source,
      resume_id |-> meta.resume_id, version_id |-> meta.version_id ]

\* _delete_by_metadata, the rows after it: one DELETE in a connection scope;
\* an exception is printed and the function returns False
DeleteByMetadata(tbl, u, c, flt, f) ==
    IF DbFails(f, "delete") THEN tbl ELSE DeleteMatching(tbl, u, c, flt)

\* id_field_map.get(source_type) of delete_from_vector_store, as the filter
\* {id_field: record_id}
IdFieldFilter(source_type, rid) ==
    IF source_type = "resume" THEN [ resume_id |-> rid ] ELSE [ version_id |-> rid ]

\* the upsert of both sync functions: delete the old entry by record_id and
\* record_type, then add_texts([text], [metadata])
ResumeSyncRows(tbl, u, meta, f) ==
    LET tbl1 == DeleteByMetadata(tbl, u, ResumeCollection,
                    [ record_id |-> meta.record_id, record_type |-> meta.record_type ], f)
    IN  IF AddTextsInserts(TRUE, f)
        THEN tbl1 \cup { ResumeRow(NewId(tbl1), u, meta) }
        ELSE tbl1

ResumeObs(op, rt, rid, res) ==
    [ op |-> op, record_type |-> rt, rid |-> rid, result |-> res, stored |-> table ]

ResumeFrame ==
    /\ UNCHANGED << table_exists, extension_checked >>
    /\ UNCHANGED << embedVars, concVars, auxVars >>

SyncResumeCall(rid, d, f) ==
    /\ NewId(table) <= MaxResumeDocs
    /\ table' = ResumeSyncRows(table, ResumeUser, ResumeMeta(rid, d), f)
    /\ last' = ResumeObs("sync", "resume", rid, AddTextsInserts(TRUE, f))
    /\ ResumeFrame

SyncResumeVersionCall(vid, rid, d, f) ==
    /\ NewId(table) <= MaxResumeDocs
    /\ table' = ResumeSyncRows(table, ResumeUser, VersionMeta(vid, rid, d), f)
    /\ last' = ResumeObs("sync", "resume_version", vid, AddTextsInserts(TRUE, f))
    /\ ResumeFrame

\* delete_from_vector_store(source_type, record_id, user_id); it returns
\* cursor.rowcount > 0 of the DELETE
DeleteFromStoreRows(tbl, u, source_type, rid, f) ==
    DeleteByMetadata(tbl, u, ResumeCollection, IdFieldFilter(source_type, rid), f)

\* ResumeDB.delete_resume: get_resume first (None when the query fails or
\* finds no resume document), then delete_from_vector_store('resume', ...)
DeleteResumeCall(rid, f) ==
    LET found == /\ ~DbFails(f, "query")
                 /\ RecordRows(table, ResumeUser, ResumeCollection, "resume", rid) # {}
        tbl1  == IF found
                 THEN DeleteFromStoreRows(table, ResumeUser, "resume", rid, f)
                 ELSE table
    IN  /\ table' = tbl1
        /\ last' = ResumeObs("delete", "resume", rid, tbl1 # table)
        /\ ResumeFrame

\* delete_from_vector_store('resume_version', version_id, user_id)
DeleteVersionCall(vid, f) ==
    LET tbl1 == DeleteFromStoreRows(table, ResumeUser, "resume_version", vid, f)
    IN  /\ table' = tbl1
        /\ last' = ResumeObs("delete", "resume_version", vid, tbl1 # table)
        /\ ResumeFrame

SyncResume == \E rid \in ResumeIds, d \in Payloads, f \in ResumeFaults :
    SyncResumeCall(rid, d, f)
SyncResumeVersion == \E vid \in VersionIds, rid \in ResumeIds, f \in ResumeFaults :
    SyncResumeVersionCall(vid, rid, "v1", f)
DeleteResume == \E rid \in ResumeIds, f \in ResumeFaults : DeleteResumeCall(rid, f)
DeleteVersion == \E vid \in VersionIds, f \in ResumeFaults : DeleteVersionCall(vid, f)

ResumesInit ==
    /\ table = {}
    /\ table_exists = TRUE
    /\ extension_checked = TRUE
    /\ last = ResumeObs(None, None, None, FALSE)

InitResumes == ResumesInit /\ EmbedIdle /\ ConcIdle /\ AuxIdle
NextResumes ==
    \/ SyncResume
    \/ SyncResumeVersion
    \/ DeleteResume
    \/ DeleteVersion
SpecResumes == InitResumes /\ [][NextResumes]_vars

\* C28 as stated: a delete of a logical record changes only the documents of
\* that record type and record id; every other document of the tenant and
\* collection is still stored afterwards, unchanged (so the versions of a
\* deleted resume stay in place).
C28_DeleteFrame ==
    last.op = "delete" =>
        \A r \in last.stored :
            ~(r.record_type = last.record_type /\ r.record_id = last.rid)
                => r \in table


(***************************************************************************)
(* Legacy migration over documents of several sources and collections:     *)
(* add_texts stores the caller's metadata as it is, so a document has a    *)
(* source only when the caller gave one.                                   *)
(***************************************************************************)
MaxLegacyDocs == 2   \* rows the table holds at a time

LegacyCollections == { "personal_assistant", "applications" }
\* None: the metadata has no "source" key (metadata->>'source' IS NULL)
LegacySources == { None, "linkedin-job-page", "resume.pdf" }
LegacyFaults == { "ok", "pool", "migrate", "insert" }

LegacyObs(op, u, c, f) ==
    [ op |-> op, user |-> u, coll |-> c, fault |-> f ]

\* PgVectorStore(collection_name=c, user_id=u)
LegacyConstructCall(u, c, f) ==
    /\ extension_checked' = EnsureExtension(extension_checked, f)
    /\ table_exists' = CtorTableExists(table_exists, f)
    /\ table' = CtorRows(table, table_exists, u, c, f)
    /\ last' = LegacyObs("construct", u, c, f)
    /\ UNCHANGED << embedVars, concVars, auxVars >>

\* PgVectorStore(collection_name=c, user_id=u).add_texts([text], [metadata])
LegacyAddTextsCall(u, c, src, f) ==
    /\ NewId(table) <= MaxLegacyDocs
    /\ extension_checked' = EnsureExtension(extension_checked, f)
    /\ table_exists' = EnsureTable(CtorTableExists(table_exists, f), f)
    /\ table' = AddTextsRows(CtorRows(table, table_exists, u, c, f),
                             CtorTableExists(table_exists, f), u, c, ChunkMeta(src), f)
    /\ last' = LegacyObs("add_texts", u, c, f)
    /\ UNCHANGED << embedVars, concVars, auxVars >>

LegacyConstruct == \E u \in Users, c \in LegacyCollections, f \in LegacyFaults :
    LegacyConstructCall(u, c, f)
LegacyAddTexts ==
    \E u \in Users, c \in LegacyCollections, src \in LegacySources, f \in LegacyFaults :
        LegacyAddTextsCall(u, c, src, f)

LegacyInit ==
    /\ table = {}
    /\ table_exists = FALSE
    /\ extension_checked = FALSE
    /\ last = LegacyObs(None, None, None, "ok")

InitLegacy == LegacyInit /\ EmbedIdle /\ ConcIdle /\ AuxIdle
NextLegacy ==
    \/ LegacyConstruct
    \/ LegacyAddTexts
SpecLegacy == InitLegacy /\ [][NextLegacy]_vars

\* C30 as stated: when a store is constructed without failure for a real
\* tenant that has no document in the collection, the table afterwards is the
\* table before with every fallback-tenant document of that collection
\* reassigned to the tenant, documents without a source included, except the
\* 'linkedin-job-page' documents when the tenant id starts with 'google_';
\* all other documents are unchanged.
C30_MigrationReassigns ==
    [][ ( /\ last'.op = "construct" /\ last'.fault = "ok"
          /\ last'.user # LEGACY_DEFAULT_USER_ID
          /\ InScope(table, last'.user, last'.coll) = {} )
        => table' =
             { IF /\ r.user_id = LEGACY_DEFAULT_USER_ID
                  /\ r.collection_name = last'.coll
                  /\ ~(r.source = "linkedin-job-page" /\ LikeGoogle(last'.user))
               THEN [ r EXCEPT !.user_id = last'.user ]
               ELSE r : r \in table }
      ]_vars
====
